---- MODULE Spec2Model ----
(***************************************************************************)
(* A model of ZEngine (the generative art engine of z-gallery): the seeded *)
(* generator, the palette and composer tables, the seven composers as the  *)
(* scenes they append, render, and the renderAnimated reveal controller    *)
(* with its timers.                                                        *)
(*                                                                         *)
(* Numbers.  A 32-bit word is a pair <<hi, lo>> of 16-bit halves, so that  *)
(* the generator's arithmetic modulo 2^32 is exact.  A draw is the word u  *)
(* whose value u / 2^32 the generator returns.  A density is given in      *)
(* hundredths (50 is the source's 0.5).  Lengths on the canvas are not     *)
(* modelled: a primitive keeps its tag, fill, filter and opacity attribute *)
(* and, as its geometry, the generator state its coordinates were drawn    *)
(* up to.                                                                  *)
(***************************************************************************)
EXTENDS Integers, Sequences, FiniteSets, TLC

\* the weight of the high half of a 32-bit word
W16 == 2 ^ 16

(***************************************************************************)
(* 32-bit arithmetic of createRng                                          *)
(***************************************************************************)
\* x | 0 : the 32-bit pattern of an integer (two's complement for x < 0)
ToInt32(x) == <<(x \div W16) % W16, x % W16>>

\* a + b | 0
Add32(a, b) ==
  LET lo == a[2] + b[2]
  IN  <<(a[1] + b[1] + (lo \div W16)) % W16, lo % W16>>

RECURSIVE XorBits(_, _, _)
\* a ^ b on the low w bits, w a power of two, by halves
XorBits(a, b, w) ==
  IF a = 0 THEN b
  ELSE IF b = 0 THEN a
  ELSE IF w = 1 THEN 0
  ELSE LET h == 2 ^ (w \div 2)
       IN  XorBits(a \div h, b \div h, w \div 2) * h + XorBits(a % h, b % h, w \div 2)

\* a ^ b on non-negative halves
BitXor(a, b) == XorBits(a, b, 16)

\* a | b for the odd constants 1 and 61 of createRng (all their bits are
\* below 64)
BitOr(a, b) ==
  LET low == {n \in 0..63 : \A i \in 0..5 :
                (n \div 2 ^ i) % 2 =
                  (IF ((a % 64) \div 2 ^ i) % 2 = 1 \/ ((b % 64) \div 2 ^ i) % 2 = 1
                     THEN 1 ELSE 0)}
  IN  (a \div 64) * 64 + (CHOOSE n \in low : TRUE)

Xor32(a, b) == <<BitXor(a[1], b[1]), BitXor(a[2], b[2])>>

\* a >>> k, for 0 < k < 16
Shr32(a, k) ==
  LET p == 2 ^ k
      q == 2 ^ (16 - k)
  IN  <<a[1] \div p, (a[1] % p) * q + (a[2] \div p)>>

\* (x * y) mod 2^16 of two halves, by bytes
MulLow16(x, y) ==
  ((x % 256) * (y % 256)
     + ((((x \div 256) * (y % 256)) + ((x % 256) * (y \div 256))) % 256) * 256) % W16

\* Math.imul(a, b): the low 32 bits of the product
imul(a, b) ==
  LET a0 == a[2] % 256
      a1 == a[2] \div 256
      b0 == b[2] % 256
      b1 == b[2] \div 256
      p1 == a1 * b0 + a0 * b1
      lo == a0 * b0 + (p1 % 256) * 256
      hi == a1 * b1 + (p1 \div 256) + (lo \div W16)
             + MulLow16(a[1], b[2]) + MulLow16(a[2], b[1])
  IN  <<hi % W16, lo % W16>>

(***************************************************************************)
(* createRng (mulberry32).  The closure keeps one state word; a generator  *)
(* is modelled by the draws it will make: rng[k] holds the state word      *)
(* after k draws and the word that draw returned.                          *)
(***************************************************************************)
RngStep == <<27947, 31221>>      \* 0x6D2B79F5

\* the state word after k draws from state s: s + k * 0x6D2B79F5 | 0
rngState(s, k) == IF k = 0 THEN s ELSE Add32(s, imul(ToInt32(k), RngStep))

\* t = Math.imul(s ^ s >>> 15, 1 | s)
rngMix(s) == imul(Xor32(s, Shr32(s, 15)), <<s[1], BitOr(s[2], 1)>>)

\* t = t + Math.imul(t ^ t >>> 7, 61 | t) ^ t
rngFold(t) ==
  Xor32(Add32(t, imul(Xor32(t, Shr32(t, 7)), <<t[1], BitOr(t[2], 61)>>)), t)

\* t ^ t >>> 14 left as the signed 32-bit result of the xor
rngWordSigned(t) ==
  LET w == Xor32(t, Shr32(t, 14))
  IN  <<IF w[1] >= W16 \div 2 THEN w[1] - W16 ELSE w[1], w[2]>>

\* (t ^ t >>> 14) >>> 0
rngWord(t) == Xor32(t, Shr32(t, 14))

\* the word returned by the draw that moved the generator into state s
rngOut(s) == rngWord(rngFold(rngMix(s)))

rngDraw(s) == [s |-> s, u |-> rngOut(s)]

createRng(seed) == [k \in Nat |-> rngDraw(rngState(ToInt32(seed), k))]

\* the generator after one more draw
rngAdvance(rng) == [k \in Nat |-> rng[k + 1]]

\* the state word of the generator after k draws
rngSkip(rng, k) == rng[k].s

\* the word returned by the k-th draw of the generator
U(rng, k) == rng[k].u

(***************************************************************************)
(* Draw helpers.  u is the word of one draw; the value drawn is u / 2^32.  *)
(***************************************************************************)
\* rng() > pct / 100
GreaterThan(u, pct) ==
  LET q == u[1] * 100 + (u[2] * 100) \div W16
      r == (u[2] * 100) % W16
  IN  q > pct * W16 \/ (q = pct * W16 /\ r > 0)

\* rng() < pct / 100
LessThan(u, pct) == u[1] * 100 + (u[2] * 100) \div W16 < pct * W16

\* Math.floor(min + rng() * (max - min)): the range taken without its + 1
rangeIntOpen(u, min, max) ==
  min + ((max - min) * u[1] + ((max - min) * u[2]) \div W16) \div W16

\* rangeInt(rng, min, max) = Math.floor(min + rng() * (max + 1 - min))
rangeInt(u, min, max) ==
  min + ((max + 1 - min) * u[1] + ((max + 1 - min) * u[2]) \div W16) \div W16

\* pick(rng, arr): the 1-based position Math.floor(rng() * arr.length) + 1
pick(u, len) == 1 + (len * u[1] + (len * u[2]) \div W16) \div W16

(***************************************************************************)
(* Canvas arithmetic.  A length or a factor is an integer number of        *)
(* 2^-20 (about one millionth): Dec(291200) is 291.2.                      *)
(***************************************************************************)
Q20 == 2 ^ 20

\* the value h / 1000
Dec(h) == (h \div 1000) * Q20 + ((h % 1000) * Q20) \div 1000

\* the product of two 16-bit halves, as a word
Mul16(x, y) ==
  LET y0 == y % 256
      t  == x * (y \div 256) + (x * y0) \div 256
  IN  <<t \div 256, ((t % 256) * 256) + ((x * y0) % 256)>>

\* floor(a * b / 2^32) for two words, a below 2^30
MulHi(a, b) ==
  LET m10 == Mul16(a[1], b[2])
      m01 == Mul16(a[2], b[1])
      m00 == Mul16(a[2], b[2])
  IN  a[1] * b[1] + m10[1] + m01[1] + (m10[2] + m01[2] + m00[1]) \div W16

\* min + rng() * (max - min) for min <= max
range(u, min, max) == min + MulHi(ToInt32(max - min), u)

\* a * f for a factor f >= 0: the whole part of f, then its fraction as
\* a word (f * 2^12 is the fraction in 2^-32)
Scale(a, f) ==
  LET fr == <<(f % Q20) \div 16, ((f % Q20) % 16) * 4096>>
  IN  IF a >= 0
        THEN a * (f \div Q20) + MulHi(ToInt32(a), fr)
        ELSE 0 - (((0 - a) * (f \div Q20)) + MulHi(ToInt32(0 - a), fr))

CANVAS == 560

(***************************************************************************)
(* Palettes.  A palette is a record of its colours, background and ink.    *)
(***************************************************************************)
PALETTES ==
  [ZSIGNAL |->
     [colors |-> <<"#C04B3C", "#3A6EA5", "#D4A84B", "#6B7B3C", "#1C1C1C">>,
      bg |-> "#F2E8D5", charcoal |-> "#1C1C1C"],
   CLASSIC_BAUHAUS |->
     [colors |-> <<"#E63946", "#457B9D", "#F4D35E", "#1D1D1D", "#E07A2F">>,
      bg |-> "#F0E6D3", charcoal |-> "#1D1D1D"],
   CONSTRUCTIVIST |->
     [colors |-> <<"#CC0000", "#1A1A1A", "#CC0000", "#8B0000">>,
      bg |-> "#F5F0E8", charcoal |-> "#000000"],
   WARM_EARTH |->
     [colors |-> <<"#C67B5C", "#CC9933", "#6B7B3C", "#8B4513", "#1C1C1C">>,
      bg |-> "#F2E8D5", charcoal |-> "#1C1C1C"],
   COOL_STEEL |->
     [colors |-> <<"#3A6EA5", "#5A6B7C", "#7B96A8", "#A0A8B0", "#1C1C1C">>,
      bg |-> "#E8ECF0", charcoal |-> "#1C1C1C"],
   MONOCHROME |->
     [colors |-> <<"#1C1C1C", "#404040", "#707070", "#A0A0A0", "#D0D0D0">>,
      bg |-> "#F2E8D5", charcoal |-> "#1C1C1C"]]

\* the signal colour written as a literal throughout the composers
Gold == "#D4A84B"

(***************************************************************************)
(* Primitives.  kind is the factory that built the element, fill its fill  *)
(* (or stroke) colour, filter the shadow filter put on it, g the generator *)
(* state when it was appended.  A fill chosen from the palette by canvas   *)
(* position or by the noise field is kept as the name of the choice.       *)
(***************************************************************************)
\* the factories whose top element carries no opacity attribute
NoOpacityAttr ==
  {"art.rect", "art.circle", "art.bar",
   "Shapes.thinLine", "Shapes.thickLine", "Shapes.diagonalLine", "Shapes.cross"}

el(kind, fill, s) ==
  [kind |-> kind, fill |-> fill, filter |-> "",
   opacity |-> IF kind \in NoOpacityAttr THEN "" ELSE "num", g |-> s]

withShadow(element) == [element EXCEPT !.filter = "shadow"]

\* the deep shadow mistaken for the soft one
withSoftShadow(element) == [element EXCEPT !.filter = "shadow"]

withDeepShadow(element) == [element EXCEPT !.filter = "deep-shadow"]

\* Shapes.circle(.., `url(#uid-glow)`, ..): the halo under a gold signal
Glow(s) == el("Shapes.circle", "url(#glow)", s)

\* weightedPick(rng, colors) with the default weights 35, 25, 20 and the
\* remaining 20 split over the other colours: the first colour whose
\* cumulative weight reaches the draw
weightedPick(u, colors) ==
  LET n == Len(colors)
      rest == IF n - 3 > 1 THEN n - 3 ELSE 1
      \* cumulative weight of the first i colours, times rest
      cum(i) == IF i = 1 THEN 35 * rest
                ELSE IF i = 2 THEN 60 * rest
                ELSE IF i = 3 THEN 80 * rest
                ELSE 80 * rest + 20 * (i - 3)
      total == cum(n)
      \* u / 2^32 * total <= cum(i)
      reached(i) ==
        LET q == u[1] * total + (u[2] * total) \div W16
            r == (u[2] * total) % W16
        IN  q < cum(i) * W16 \/ (q = cum(i) * W16 /\ r = 0)
      hit == {i \in 1..n : reached(i)}
  IN  IF hit = {} THEN colors[n]
      ELSE colors[CHOOSE i \in hit : \A j \in hit : i <= j]

RECURSIVE sumTo(_, _)
\* weights[0] + ... + weights[i - 1]
sumTo(weights, i) == IF i = 0 THEN 0 ELSE sumTo(weights, i - 1) + weights[i]

\* weightedPick(rng, colors, weights) with whole weights given: the first
\* colour i at which r = rng() * total - (weights[0] + ... + weights[i]) is
\* <= 0, else the last colour
weightedPickOf(u, colors, weights) ==
  LET total == sumTo(weights, Len(weights))
      q == u[1] * total + (u[2] * total) \div W16
      r == (u[2] * total) % W16
      hit == {i \in 1..Len(colors) :
                \/ q < sumTo(weights, i) * W16
                \/ q = sumTo(weights, i) * W16 /\ r = 0}
  IN  IF hit = {} THEN colors[Len(colors)]
      ELSE colors[CHOOSE i \in hit : \A j \in hit : i <= j]

(***************************************************************************)
(* createSpatialGrid.  The grid is the number of bounds inserted so far    *)
(* and the set of <<column, row, bounds>> entries, a bounds being known by *)
(* its insertion number (the code keeps object references).                *)
(***************************************************************************)
EmptyGrid == [n |-> 0, cells |-> {}]

\* the corners x1, y1, x2, y2 of { x, y, w, h } or { cx, cy, r }
Corners(bounds) ==
  IF "r" \in DOMAIN bounds
    THEN <<bounds.cx - bounds.r, bounds.cy - bounds.r,
           bounds.cx + bounds.r, bounds.cy + bounds.r>>
    ELSE <<bounds.x, bounds.y, bounds.x + bounds.w, bounds.y + bounds.h>>

\* the columns c1..c2 and rows r1..r2 of the cells a bounds touches
CellRange(bounds, cellSize) ==
  LET c == Corners(bounds)
  IN  [c1 |-> c[1] \div (cellSize * Q20), r1 |-> c[2] \div (cellSize * Q20),
       c2 |-> c[3] \div (cellSize * Q20), r2 |-> c[4] \div (cellSize * Q20)]

\* insert recording the bounds only in the cells of its first and last corner
insertCorners(grid, bounds, cellSize) ==
  LET k == CellRange(bounds, cellSize)
  IN  [n |-> grid.n + 1,
       cells |-> grid.cells \cup
                 {<<k.c1, k.r1, grid.n + 1>>, <<k.c2, k.r2, grid.n + 1>>}]

insert(grid, bounds, cellSize) ==
  LET k == CellRange(bounds, cellSize)
  IN  [n |-> grid.n + 1,
       cells |-> grid.cells \cup
                 {<<c, r, grid.n + 1>> : c \in k.c1..k.c2, r \in k.r1..k.r2}]

\* query looking only at the first cell c1, r1 of the bounds
queryFirstCell(grid, bounds, cellSize) ==
  LET k == CellRange(bounds, cellSize)
  IN  {e[3] : e \in {f \in grid.cells : f[1] = k.c1 /\ f[2] = k.r1}}

query(grid, bounds, cellSize) ==
  LET k == CellRange(bounds, cellSize)
  IN  {e[3] : e \in {f \in grid.cells :
                       /\ f[1] \in k.c1..k.c2
                       /\ f[2] \in k.r1..k.r2}}

density(grid, x, y, radius, cellSize) ==
  Cardinality(query(grid, [cx |-> x, cy |-> y, r |-> radius], cellSize))

\* the golden-ratio anchors C / PHI^2 and C / PHI
gpThird == Dec(213901)
gpTwoThirds == Dec(346099)

\* the draws one spatialColor call consumes: one per colour after the
\* second, and the one of weightedPick
spatialDraws(colors) == Len(colors) - 2 + 1

(***************************************************************************)
(* composeFreeForm.  Every strategy operator takes the palette p, the      *)
(* generator state s the composer started from, the number k of draws      *)
(* consumed so far and the density d in hundredths, and returns the        *)
(* primitives it appends, the draws consumed afterwards and the grid.      *)
(***************************************************************************)
\* OVERLAPPING PLANES
freeFormPlanes(p, s, k, d, hasConnectors) ==
  LET n == Len(p.colors)
      p1W == range(U(s, k + 1), Dec(291200), Dec(380800))
      p1H == range(U(s, k + 2), Dec(324800), Dec(403200))
      p1X == range(U(s, k + 3), 0 - Scale(p1W, Dec(120)), Dec(44800))
      p1Y == range(U(s, k + 4), 0 - Scale(p1H, Dec(80)), Dec(67200))
      p1Color == weightedPick(U(s, k + 5), p.colors)
      p2W == range(U(s, k + 7), Dec(212800), Dec(291200))
      p2H == range(U(s, k + 8), Dec(235200), Dec(324800))
      p2X == p1X + Scale(p1W, range(U(s, k + 9), Dec(200), Dec(400)))
      p2Y == p1Y + Scale(p1H, range(U(s, k + 10), Dec(150), Dec(350)))
      k2 == k + 10 + spatialDraws(p.colors) + 1
      \* the third plane, when density > 0.3
      kx == k2 + 3 + (IF GreaterThan(U(s, k2 + 3), 50) THEN 0 ELSE 1)
      ky == kx + 1 + (IF GreaterThan(U(s, kx + 1), 50) THEN 0 ELSE 1)
      k3 == IF d > 30 THEN ky + 1 ELSE k2
      grid == insert(insert(EmptyGrid, [x |-> p1X, y |-> p1Y, w |-> p1W, h |-> p1H], 80),
                     [x |-> p2X, y |-> p2Y, w |-> p2W, h |-> p2H], 80)
  IN  [prims |->
         <<withShadow(el("art.rect", p1Color, rngSkip(s, k + 6))),
           withShadow(el("art.rect", "spatialColor", rngSkip(s, k2)))>>
         \o (IF d > 30 THEN <<el("art.rect", p.charcoal, rngSkip(s, k3))>> ELSE <<>>)
         \o <<Glow(rngSkip(s, k3 + 3)),
              withDeepShadow(el("art.circle", Gold, rngSkip(s, k3 + 4)))>>
         \o (IF GreaterThan(U(s, k3 + 8), 50)
               THEN <<el("art.triangle", p.charcoal, rngSkip(s, k3 + 9))>>
               ELSE <<el("art.circle", p.colors[3], rngSkip(s, k3 + 9))>>)
         \o (IF hasConnectors
               THEN <<el("Shapes.thinLine", p.charcoal, rngSkip(s, k3 + 9)),
                      el("Shapes.thinLine", p.charcoal, rngSkip(s, k3 + 9))>>
               ELSE <<>>),
       k |-> k3 + 9,
       grid |-> grid]

\* EDGE-ANCHORED MASSES
freeFormEdge(p, s, k, d, hasTexture) ==
  LET anchorLeft == GreaterThan(U(s, k + 1), 50)
      domW == range(U(s, k + 2), Dec(235200), Dec(324800))
      domH == range(U(s, k + 3), Dec(308000), Dec(420000))
      domX == IF anchorLeft
                THEN 0 - Scale(domW, range(U(s, k + 4), Dec(80), Dec(180)))
                ELSE CANVAS * Q20 - Scale(domW, range(U(s, k + 4), Dec(820), Dec(920)))
      domY == range(U(s, k + 5), 0 - Scale(domH, Dec(50)), Dec(56000))
      k2 == k + 7 + 4 + spatialDraws(p.colors) + 1
      arc == GreaterThan(U(s, k2 + 2), 50)
      k3 == k2 + 3
      k4 == k3 + 3
      k5 == IF hasTexture THEN k4 + 5 ELSE k4
  IN  [prims |->
         <<withDeepShadow(el("art.rect", weightedPick(U(s, k + 6), p.colors),
                                rngSkip(s, k + 7))),
           withShadow(el("art.rect", "spatialColor", rngSkip(s, k2))),
           IF arc THEN withShadow(el("art.semicircle", p.colors[3], rngSkip(s, k3)))
                  ELSE el("Shapes.quarterCircle", p.colors[3], rngSkip(s, k3)),
           Glow(rngSkip(s, k3 + 2)),
           withDeepShadow(el("art.circle", Gold, rngSkip(s, k4)))>>
         \o (IF hasTexture THEN <<el("Shapes.stripeBlock", p.charcoal, rngSkip(s, k5))>>
                           ELSE <<>>)
         \o <<el("art.rect", p.charcoal, rngSkip(s, k5 + 5))>>,
       k |-> k5 + 5,
       grid |-> insert(EmptyGrid, [x |-> domX, y |-> domY, w |-> domW, h |-> domH], 80)]

\* DIAGONAL TENSION
freeFormDiagonal(p, s, k, d, hasConnectors) ==
  LET bigR == range(U(s, k + 1), Dec(112000), Dec(145600))
      bigX == gpThird + range(U(s, k + 2), Dec(30000), Dec(80000))
      bigY == gpThird + range(U(s, k + 3), Dec(40000), Dec(100000))
      k2 == k + 5
      k3 == k2 + 1
      k4 == k3 + 3 + spatialDraws(p.colors) + 1
      k5 == k4 + 5
      k6 == k5 + 5
      k7 == k6 + 2
  IN  [prims |->
         <<withDeepShadow(el("art.circle", weightedPick(U(s, k + 4), p.colors),
                                rngSkip(s, k2))),
           el("Shapes.circleOutline", p.charcoal, rngSkip(s, k3)),
           withShadow(el("art.circle", "spatialColor", rngSkip(s, k4))),
           withShadow(el("art.bar", p.charcoal, rngSkip(s, k5))),
           withShadow(el("art.rect", p.colors[3], rngSkip(s, k6))),
           Glow(rngSkip(s, k6 + 1)),
           withDeepShadow(el("art.circle", Gold, rngSkip(s, k7)))>>
         \o (IF hasConnectors THEN <<el("Shapes.thinLine", p.charcoal, rngSkip(s, k7))>>
                              ELSE <<>>),
       k |-> k7,
       grid |-> insert(EmptyGrid, [cx |-> bigX, cy |-> bigY, r |-> bigR], 80)]

RECURSIVE bestCandidateLatest(_, _, _, _, _)
\* the 8 attempts, the best position replaced also by an equal density
bestCandidateLatest(s, k, grid, a, best) ==
  IF a = 8 THEN best
  ELSE LET tx == range(U(s, k + 2 * a + 1), Dec(28000), Dec(476000))
           ty == range(U(s, k + 2 * a + 2), Dec(28000), Dec(476000))
           dn == density(grid, tx, ty, 80 * Q20, 80)
       IN  bestCandidateLatest(s, k, grid, a + 1,
             IF best.dens = -1 \/ dn <= best.dens
               THEN [x |-> tx, y |-> ty, dens |-> dn] ELSE best)

RECURSIVE bestCandidate(_, _, _, _, _)
\* the 8 placement attempts of one island: attempt a draws tx and ty and
\* replaces the best position when its density is strictly lower
bestCandidate(s, k, grid, a, best) ==
  IF a = 8 THEN best
  ELSE LET tx == range(U(s, k + 2 * a + 1), Dec(28000), Dec(476000))
           ty == range(U(s, k + 2 * a + 2), Dec(28000), Dec(476000))
           dn == density(grid, tx, ty, 80 * Q20, 80)
       IN  bestCandidate(s, k, grid, a + 1,
             IF best.dens = -1 \/ dn < best.dens
               THEN [x |-> tx, y |-> ty, dens |-> dn] ELSE best)

RECURSIVE freeFormIslands(_, _, _, _, _, _, _, _)
\* FLOATING ARCHIPELAGO: islands i .. islandCount - 1; placed lists, for
\* every island so far, the draws consumed and the grid when its search
\* began, the position chosen and the bounds inserted
freeFormIslands(p, s, k, i, islandCount, grid, prims, placed) ==
  IF i = islandCount
    THEN [prims |-> prims
                    \o <<Glow(rngSkip(s, k + 1)),
                         withDeepShadow(el("art.circle", Gold, rngSkip(s, k + 2)))>>,
          k |-> k + 2, grid |-> grid, islands |-> placed]
  ELSE LET best == bestCandidate(s, k, grid, 0, [x |-> 0, y |-> 0, dens |-> -1])
           size == Scale(range(U(s, k + 17), Dec(44800), Dec(123200)), Dec(1000 - 80 * i))
           k2 == k + 17 + spatialDraws(p.colors)
           shapeType == pick(U(s, k2 + 1), 3)
           w == Scale(size, range(U(s, k2 + 2), Dec(800), Dec(1500)))
           h == Scale(size, range(U(s, k2 + 3), Dec(800), Dec(1500)))
           r == size \div 2
           bounds == IF shapeType = 1
                       THEN [x |-> best.x, y |-> best.y, w |-> w, h |-> h]
                     ELSE IF shapeType = 2
                       THEN [cx |-> best.x + r, cy |-> best.y + r, r |-> r]
                     ELSE [x |-> best.x, y |-> best.y, w |-> size, h |-> size]
           island == [k |-> k, before |-> grid, best |-> best, bounds |-> bounds]
       IN  IF shapeType = 1
             THEN freeFormIslands(p, s, k2 + 5, i + 1, islandCount,
                    insert(grid, bounds, 80),
                    Append(prims, withShadow(el("art.rect", "spatialColor",
                                                rngSkip(s, k2 + 5)))),
                    Append(placed, island))
           ELSE IF shapeType = 2
             THEN freeFormIslands(p, s, k2 + 3, i + 1, islandCount,
                    insert(grid, bounds, 80),
                    Append(prims, withShadow(el("art.circle", "spatialColor",
                                                rngSkip(s, k2 + 3)))),
                    Append(placed, island))
           ELSE freeFormIslands(p, s, k2 + 3, i + 1, islandCount,
                    insert(grid, bounds, 80),
                    Append(prims, el("art.triangle", "spatialColor", rngSkip(s, k2 + 3))),
                    Append(placed, island))

\* LAYERED DEPTH
freeFormLayers(p, s, k, d) ==
  LET layerCount == rangeInt(U(s, k + 1), 3, 5)
      n == Len(p.colors)
      layer(i) ==
        withShadow(el(IF GreaterThan(U(s, k + 1 + 6 * i + 5), 40)
                        THEN "art.rect" ELSE "art.circle",
                      p.colors[(i % n) + 1], rngSkip(s, k + 1 + 6 * i + 6)))
      k2 == k + 1 + 6 * layerCount
  IN  [prims |->
         [i \in 1..layerCount |-> layer(i - 1)]
         \o <<Glow(rngSkip(s, k2 + 3)),
              withDeepShadow(el("art.circle", Gold, rngSkip(s, k2 + 4))),
              el("art.bar", p.charcoal, rngSkip(s, k2 + 10))>>,
       k |-> k2 + 10,
       grid |-> EmptyGrid]

RECURSIVE microAccents(_, _, _, _, _, _, _)
\* UNIVERSAL MICRO-ACCENTS: candidates i .. accentCount - 1, a dot where
\* fewer than two bounds are within radius 50
microAccents(p, s, k, i, accentCount, grid, prims) ==
  IF i = accentCount THEN prims
  ELSE LET ax == range(U(s, k + 1), Dec(28000), Dec(532000))
           ay == range(U(s, k + 2), Dec(28000), Dec(532000))
       IN  IF density(grid, ax, ay, 50 * Q20, 80) < 2
             THEN microAccents(p, s, k + 4, i + 1, accentCount, grid,
                    Append(prims, el("Shapes.dot", "noise", rngSkip(s, k + 4))))
             ELSE microAccents(p, s, k + 2, i + 1, accentCount, grid, prims)

\* the draws createNoise2D consumes: one per step of its shuffle loop,
\* i = 255 down to 1
NoiseDraws == 255

\* a composer whose strategy is drawn after a density-gated draw
strategyAfterTexture(composer, p, s, d) ==
  LET strategies == [composeFreeForm |-> 5, composeGrid |-> 3,
                     composeRepetition |-> 4, composeConstructivist |-> 3,
                     composeColorStudy |-> 3, composeDotField |-> 3,
                     composeArabianGeometric |-> 3]
  IN rangeInt(U(s, NoiseDraws + (IF d > 35 THEN 2 ELSE 1)), 0,
              strategies[composer] - 1)

\* const strategy = rangeInt(rng, 0, k - 1) of composer(svg, palette, rng,
\* density, uid): the first draw after createNoise2D(rng), made before the
\* composer reads density or the palette's colours
strategyOf(composer, p, s, d) ==
  LET strategies == [composeFreeForm |-> 5, composeGrid |-> 3,
                     composeRepetition |-> 4, composeConstructivist |-> 3,
                     composeColorStudy |-> 3, composeDotField |-> 3,
                     composeArabianGeometric |-> 3]
  IN rangeInt(U(s, NoiseDraws + 1), 0, strategies[composer] - 1)

composeFreeForm(p, s, d) ==
  LET strategy == strategyOf("composeFreeForm", p, s, d)
      kT == NoiseDraws + 1 + (IF d > 35 THEN 1 ELSE 0)
      hasTexture == d > 35 /\ GreaterThan(U(s, kT), 30)
      kC == kT + (IF d > 30 THEN 1 ELSE 0)
      hasConnectors == d > 30 /\ GreaterThan(U(s, kC), 40)
      hasMicroAccents == GreaterThan(U(s, kC + 1), 35)
      k == kC + 1
      body == IF strategy = 0 THEN freeFormPlanes(p, s, k, d, hasConnectors)
              ELSE IF strategy = 1 THEN freeFormEdge(p, s, k, d, hasTexture)
              ELSE IF strategy = 2 THEN freeFormDiagonal(p, s, k, d, hasConnectors)
              ELSE IF strategy = 3
                THEN freeFormIslands(p, s, k + 1, 0, rangeInt(U(s, k + 1), 4, 7),
                                     EmptyGrid, <<>>, <<>>)
              ELSE freeFormLayers(p, s, k, d)
  IN  <<el("Shapes.rect", p.bg, rngSkip(s, NoiseDraws))>>
      \o body.prims
      \o (IF hasMicroAccents
            THEN microAccents(p, s, body.k + 1, 0,
                              rangeInt(U(s, body.k + 1), 2, 5), body.grid, <<>>)
            ELSE <<>>)

RECURSIVE shuffleToZero(_, _, _, _)
\* the loop run down to index 0, the last step swapping a[0] with itself
shuffleToZero(s, k, a, i) ==
  IF i < 0 THEN [a |-> a, k |-> k]
  ELSE LET j == pick(U(s, k + 1), i + 1) - 1
       IN  shuffleToZero(s, k + 1,
                         [a EXCEPT ![i + 1] = a[j + 1], ![j + 1] = a[i + 1]], i - 1)

\* shuffled drawing once for every element
shuffledToZero(s, k, arr) == shuffleToZero(s, k, arr, Len(arr) - 1)

RECURSIVE shuffleFrom(_, _, _, _)
\* the loop of shuffled: i (0-based) runs from the last index down while
\* i > 0, draw k + 1 chooses the index j in 0..i that a[i] is swapped with
shuffleFrom(s, k, a, i) ==
  IF i <= 0 THEN [a |-> a, k |-> k]
  ELSE LET j == pick(U(s, k + 1), i + 1) - 1
       IN  shuffleFrom(s, k + 1,
                       [a EXCEPT ![i + 1] = a[j + 1], ![j + 1] = a[i + 1]], i - 1)

\* shuffled(rng, arr) after the k draws consumed so far: the array returned
\* and the draws consumed when it returns
shuffled(s, k, arr) == shuffleFrom(s, k, arr, Len(arr) - 1)

(***************************************************************************)
(* composeColorStudy.                                                      *)
(***************************************************************************)
\* C / (ringCount * 2 + 3)
ringUnit(ringCount) == (CANVAS * Q20) \div (ringCount * 2 + 3)

\* the width and height left for ring i by the three insets drawn at
\* k + 1, k + 2 and k + 3
ringBox(s, k, i, ringCount) ==
  LET inset == ringUnit(ringCount) * (i + 1)
      sideInset == Scale(inset, range(U(s, k + 1), Dec(1000), Dec(1300)))
      topInset == Scale(inset, range(U(s, k + 2), Dec(800), Dec(1100)))
      bottomInset == Scale(inset, range(U(s, k + 3), Dec(1300), Dec(1800)))
  IN  [w |-> CANVAS * Q20 - sideInset * 2,
       h |-> CANVAS * Q20 - topInset - bottomInset]

RECURSIVE colorStudyRings(_, _, _, _, _, _, _)
\* the rings i .. ringCount - 1, drawn from outside in
colorStudyRings(s, k, i, ringCount, useSquares, ringColors, prims) ==
  IF i = ringCount THEN [prims |-> prims, k |-> k]
  ELSE LET box == ringBox(s, k, i, ringCount)
           k2 == k + 3 + (IF useSquares \/ i = 0 THEN 0 ELSE 1)
       IN  IF box.w <= 0 \/ box.h <= 0
             THEN colorStudyRings(s, k + 3, i + 1, ringCount, useSquares,
                                  ringColors, prims)
             ELSE colorStudyRings(s, k2 + 1, i + 1, ringCount, useSquares, ringColors,
                    Append(prims,
                      withShadow(el(IF useSquares THEN "art.rect" ELSE "art.circle",
                                    ringColors[i + 1], rngSkip(s, k2 + 1)))))

RECURSIVE ringSizes(_, _, _, _, _, _)
\* Math.min(w, h) of the rings i .. ringCount - 1 that are drawn, from
\* outside in: the side of the square, or the diameter of the circle
ringSizes(s, k, i, ringCount, useSquares, sizes) ==
  IF i = ringCount THEN sizes
  ELSE IF ringBox(s, k, i, ringCount).w <= 0 \/ ringBox(s, k, i, ringCount).h <= 0
    THEN ringSizes(s, k + 3, i + 1, ringCount, useSquares, sizes)
  ELSE ringSizes(s, k + 4 + (IF useSquares \/ i = 0 THEN 0 ELSE 1), i + 1,
                 ringCount, useSquares,
                 Append(sizes,
                        IF ringBox(s, k, i, ringCount).w < ringBox(s, k, i, ringCount).h
                          THEN ringBox(s, k, i, ringCount).w
                          ELSE ringBox(s, k, i, ringCount).h))

\* ALBERS "HOMAGE TO THE SQUARE" (squares) and its circles variant
colorStudyHomage(p, s, k, useSquares) ==
  LET allColors == <<p.bg>> \o p.colors
      ringCount == rangeInt(U(s, k + 1), 3, 5)
      available == shuffled(s, k + 1, allColors).a
      ringColors == [i \in 1..ringCount |->
                       available[((i - 1) % Len(available)) + 1]]
      rings == colorStudyRings(s, k + 1 + Len(allColors) - 1, 0, ringCount,
                               useSquares, ringColors, <<>>)
      innerInset == ringUnit(ringCount) * (ringCount + 1)
      innerSize == CANVAS * Q20 - Scale(innerInset, Dec(2500))
      used == {ringColors[i] : i \in 1..ringCount}
      unused(c) == c \notin used
      innerColor == weightedPick(U(s, rings.k + 1),
                                 SelectSeq(p.colors, unused) \o <<Gold>>)
  IN  rings.prims
      \o (IF innerSize > 20 * Q20
            THEN <<withDeepShadow(el(IF useSquares THEN "art.rect" ELSE "art.circle",
                                     innerColor, rngSkip(s, rings.k + 2)))>>
            ELSE <<>>)

\* COLOR INTERACTION STUDY: divisions fields side by side, one small square
\* of the same colour on each
colorStudyFields(p, s, k) ==
  LET divisions == rangeInt(U(s, k + 1), 2, 3)
      fieldColors == shuffled(s, k + 2, p.colors).a
      k2 == k + 2 + Len(p.colors) - 1
      squareColor == weightedPick(U(s, k2 + divisions + 2), <<Gold, p.charcoal, p.bg>>)
      k3 == k2 + divisions + 2
  IN  [i \in 1..divisions |-> el("art.rect", fieldColors[i], rngSkip(s, k2 + i))]
      \o [i \in 1..divisions |-> el("art.rect", squareColor, rngSkip(s, k3 + i))]

composeColorStudy(p, s, d) ==
  LET strategy == strategyOf("composeColorStudy", p, s, d)
  IN  <<el("Shapes.rect", p.bg, rngSkip(s, NoiseDraws))>>
      \o (IF strategy = 0 \/ strategy = 1
            THEN colorStudyHomage(p, s, NoiseDraws + 1, strategy = 0)
            ELSE colorStudyFields(p, s, NoiseDraws + 1))

(***************************************************************************)
(* composeConstructivist.  red is the first palette colour, black the      *)
(* second (the ink when the palette has none).                             *)
(***************************************************************************)
RECURSIVE wedgeFragments(_, _, _, _, _, _, _)
\* the shattered fragments i .. fragCount - 1 of the red wedge
wedgeFragments(s, k, i, fragCount, red, black, prims) ==
  IF i = fragCount THEN [prims |-> prims, k |-> k]
  ELSE LET fColor == IF GreaterThan(U(s, k + 4), 60) THEN red ELSE black
       IN  IF GreaterThan(U(s, k + 5), 50)
             THEN wedgeFragments(s, k + 9, i + 1, fragCount, red, black,
                    Append(prims, el("art.rect", fColor, rngSkip(s, k + 9))))
             ELSE wedgeFragments(s, k + 7, i + 1, fragCount, red, black,
                    Append(prims, el("art.triangle", fColor, rngSkip(s, k + 7))))

\* LISSITZKY "RED WEDGE"
constructivistWedge(s, k, d, red, black) ==
  LET lineCount == rangeInt(U(s, k + 10), 3, 6)
      kF == k + 10 + 5 * lineCount
      frags == wedgeFragments(s, kF + 1, 0, rangeInt(U(s, kF + 1), 2, 5),
                              red, black, <<>>)
  IN  <<withDeepShadow(el("art.wedge", red, rngSkip(s, k + 5))),
        withShadow(el("art.circle", black, rngSkip(s, k + 9)))>>
      \o [i \in 1..lineCount |-> el("Shapes.thinLine", black, rngSkip(s, k + 10 + 5 * i))]
      \o frags.prims
      \o (IF d > 40 THEN <<el("art.rect", red, rngSkip(s, frags.k + 5))>> ELSE <<>>)

\* MALEVICH SUPREMATIST
constructivistSuprematist(s, k, d, red, black) ==
  <<withDeepShadow(el("art.rect", black, rngSkip(s, k + 7))),
    el("Shapes.cross", red, rngSkip(s, k + 10)),
    withDeepShadow(el("art.bar", red, rngSkip(s, k + 16))),
    el("art.triangle", black, rngSkip(s, k + 20)),
    el("art.circle", red, rngSkip(s, k + 24))>>
  \o (IF d > 30
        THEN [i \in 1..2 |-> el("Shapes.diagonalLine", black, rngSkip(s, k + 24 + 4 * i))]
        ELSE <<>>)

\* CONSTRUCTIVIST POSTER
constructivistPoster(s, k, red, black) ==
  LET round == GreaterThan(U(s, k + 2), 50)
      kL == IF round THEN k + 9 ELSE k + 10
      lineCount == rangeInt(U(s, kL + 1), 3, 7)
      kA == kL + 1 + 5 * lineCount
      accents == rangeInt(U(s, kA + 1), 1, 3)
      aColor(i) == IF GreaterThan(U(s, kA + 1 + 8 * (i - 1) + 4), 50) THEN red ELSE black
  IN  (IF round
         THEN <<withShadow(el("art.circle", black, rngSkip(s, k + 6))),
                el("Shapes.circleOutline", black, rngSkip(s, k + 6)),
                withDeepShadow(el("art.wedge", red, rngSkip(s, k + 9)))>>
         ELSE <<withShadow(el("art.rect", black, rngSkip(s, k + 7))),
                el("Shapes.rectOutline", black, rngSkip(s, k + 7)),
                withDeepShadow(el("art.wedge", red, rngSkip(s, k + 10)))>>)
      \o [i \in 1..lineCount |->
            el("Shapes.diagonalLine", black, rngSkip(s, kL + 1 + 5 * i))]
      \o [i \in 1..accents |-> el("art.rect", aColor(i), rngSkip(s, kA + 1 + 8 * i))]

composeConstructivist(p, s, d) ==
  LET red == p.colors[1]
      black == IF Len(p.colors) >= 2 THEN p.colors[2] ELSE p.charcoal
      strategy == strategyOf("composeConstructivist", p, s, d)
      k == NoiseDraws + 1
  IN  <<el("Shapes.rect", p.bg, rngSkip(s, NoiseDraws))>>
      \o (IF strategy = 0 THEN constructivistWedge(s, k, d, red, black)
          ELSE IF strategy = 1 THEN constructivistSuprematist(s, k, d, red, black)
          ELSE constructivistPoster(s, k, red, black))

(***************************************************************************)
(* Math.sin on canvas units: the argument and the result are in 2^-20.     *)
(* The argument is folded into the first quadrant and the series is summed *)
(* to the x^11 term (the next term is below 2^-23 there).                  *)
(***************************************************************************)
HalfPi == 1647099
\* 1 - x2 * t / n: one step of the series in x2 = x * x
sinTerm(x2, t, n) == Q20 - Scale(x2, t) \div n

\* x - x^3/3! + x^5/5! - ... + x^9/9! - x^11/11! for 0 <= x <= pi/2,
\* x2 = x * x
sinSeries(x, x2) ==
  Scale(x, sinTerm(x2, sinTerm(x2, sinTerm(x2, sinTerm(x2,
             Q20 - x2 \div 110, 72), 42), 20), 6))

sinQuadrant(x) == sinSeries(x, Scale(x, x))

\* sin of an angle t of one turn, by the quadrant it lies in
sinTurn(t) ==
  IF t <= 2 * HalfPi
    THEN sinQuadrant(IF t <= HalfPi THEN t ELSE 2 * HalfPi - t)
    ELSE 0 - sinQuadrant(IF t <= 3 * HalfPi THEN t - 2 * HalfPi
                         ELSE 4 * HalfPi - t)

sin(x) == sinTurn(x % (4 * HalfPi))

(***************************************************************************)
(* composeRepetition.                                                      *)
(***************************************************************************)
\* rhythm * 0.35
swing(rhythm) ==
  IF rhythm >= 0 THEN Scale(rhythm, Dec(350)) ELSE 0 - Scale(0 - rhythm, Dec(350))

\* the density term inverted: 0.3 + rhythm * 0.35 + (1 - density) * 0.2
fillChanceFalling(rowOffset, rowFreq, c, d) ==
  Dec(300) + swing(sin(c * rowFreq + rowOffset)) + ((100 - d) * Q20) \div 500

\* 0.3 + rhythm * 0.35 + density * 0.2 for column c of a row
fillChance(rowOffset, rowFreq, c, d) ==
  Dec(300) + swing(sin(c * rowFreq + rowOffset)) + (d * Q20) \div 500

\* rng() < fillChance, the draw cut to 2^-20
isFilled(u, chance) == u[1] * 16 + u[2] \div 4096 < chance

\* one pass of the column loop: the cell at column st.c draws once, and a
\* filled cell draws its colour, its opacity and its edge
rhythmCell(p, s, st, d) ==
  LET k2 == st.k + 1 + spatialDraws(p.colors) + 2
  IN  IF isFilled(U(s, st.k + 1), fillChance(st.rowOffset, st.rowFreq, st.c, d))
        THEN [st EXCEPT !.prims = Append(@, el("art.rect", "spatialColor",
                                               rngSkip(s, k2))),
                        !.k = k2, !.c = @ + 1]
        ELSE [st EXCEPT !.k = @ + 1, !.c = @ + 1]

RECURSIVE rhythmCells(_, _, _, _, _)
\* for (let c = 0; c < cols; c++): st holds the primitives appended, the
\* draws consumed, the row's offset and frequency and the column
rhythmCells(p, s, st, cols, d) ==
  IF st.c = cols THEN st
  ELSE rhythmCells(p, s, rhythmCell(p, s, st, d), cols, d)

\* one pass of the row loop: the row draws its offset and its frequency,
\* then runs its cells
rhythmRow(p, s, st, cols, d) ==
  rhythmCells(p, s,
              [prims |-> st.prims, k |-> st.k + 2, c |-> 0, r |-> st.r + 1,
               rowOffset |-> MulHi(ToInt32(4 * HalfPi), U(s, st.k + 1)),
               rowFreq |-> range(U(s, st.k + 2), Dec(300), Dec(800))],
              cols, d)

RECURSIVE rhythmRows(_, _, _, _, _, _)
\* for (let r = 0; r < rows; r++)
rhythmRows(p, s, st, rows, cols, d) ==
  IF st.r = rows THEN st
  ELSE rhythmRows(p, s, rhythmRow(p, s, st, cols, d), rows, cols, d)

\* the gold bar under the cells: it draws its two ends, then one draw a
\* column
goldBar(s, cells, cols) ==
  [cells |-> cells.prims,
   bar |-> [i \in 1..(rangeInt(U(s, cells.k + 3), (cols * 2) \div 3, cols - 1)
                        - rangeInt(U(s, cells.k + 2), 0, cols \div 3) + 1) |->
              withShadow(el("art.rect", Gold, rngSkip(s, cells.k + 3 + i)))]]

\* the rhythm grid of rows by cols cells, then the gold bar
rhythmGrid(p, s, k, rows, cols, d) ==
  goldBar(s, rhythmRows(p, s, [prims |-> <<>>, k |-> k + 2, r |-> 0],
                        rows, cols, d), cols)

\* KLEE "RHYTHMISCHES"
repetitionRhythm(p, s, k, d) ==
  rhythmGrid(p, s, k, rangeInt(U(s, k + 1), 4, 8), rangeInt(U(s, k + 2), 6, 12), d)

\* the cells of the rhythm grid, then its bar
cellsAndBar(rhythm) == rhythm.cells \o rhythm.bar

\* RILEY "MOVEMENT IN SQUARES"
repetitionSquares(p, s, k) ==
  LET count == rangeInt(U(s, k + 1), 8, 16)
      n == Len(p.colors)
      color(i) == IF i % 2 = 0 THEN p.colors[1]
                  ELSE p.colors[(IF n - 1 < 1 THEN n - 1 ELSE 1) + 1]
      k2 == k + 2 + 2 * count
  IN  [i \in 1..count |->
         withShadow(el("art.rect", color(i - 1), rngSkip(s, k + 2 + 2 * i)))]
      \o <<Glow(rngSkip(s, k2 + 2)),
           withDeepShadow(el("art.circle", Gold, rngSkip(s, k2 + 3)))>>

\* WAVE PROCESSION
repetitionWave(p, s, k) ==
  LET count == rangeInt(U(s, k + 1), 8, 18)
      shapeType == pick(U(s, k + 6), 4)
      kind == <<"art.circle", "art.rect", "art.triangle", "art.semicircle">>[shapeType]
      per == spatialDraws(p.colors) + 2
      k2 == k + 11 + per * count
  IN  <<withDeepShadow(el("art.rect", p.charcoal, rngSkip(s, k + 11)))>>
      \o [i \in 1..count |-> el(kind, "spatialColor", rngSkip(s, k + 11 + per * i))]
      \o <<Glow(rngSkip(s, k2 + 1)),
           withDeepShadow(el("art.circle", Gold, rngSkip(s, k2 + 2)))>>

RECURSIVE radialRings(_, _, _, _, _, _, _, _)
\* the rings ring .. rings - 1 of the radial rhythm
radialRings(p, s, k, ring, rings, elementsPerRing, kind, prims) ==
  IF ring = rings THEN [prims |-> prims, k |-> k]
  ELSE LET elements == elementsPerRing + ring * 2
           per == IF kind = "art.triangle" THEN 1 ELSE 2
           ringColor == p.colors[(ring % Len(p.colors)) + 1]
       IN  radialRings(p, s, k + 2 + per * elements, ring + 1, rings,
                       elementsPerRing, kind,
                       prims \o [i \in 1..elements |->
                                   el(kind, ringColor, rngSkip(s, k + 2 + per * i))])

\* RADIAL RHYTHM
repetitionRadial(p, s, k, d) ==
  LET rings == rangeInt(U(s, k + 1), 3, 6)
      elementsPerRing == rangeInt(U(s, k + 2), 4, 10)
      kind == <<"art.circle", "art.rect", "art.triangle">>[pick(U(s, k + 3), 3)]
      body == radialRings(p, s, k + 3, 0, rings, elementsPerRing, kind, <<>>)
  IN  body.prims
      \o <<Glow(rngSkip(s, body.k + 1)),
           withDeepShadow(el("art.circle", Gold, rngSkip(s, body.k + 2)))>>
      \o (IF d > 40
            THEN [i \in 1..rings |->
                    el("Shapes.circleOutline", p.charcoal, rngSkip(s, body.k + 2))]
            ELSE <<>>)

composeRepetition(p, s, d) ==
  LET strategy == strategyOf("composeRepetition", p, s, d)
      k == NoiseDraws + 1
  IN  <<el("Shapes.rect", p.bg, rngSkip(s, NoiseDraws))>>
      \o (IF strategy = 0 THEN cellsAndBar(repetitionRhythm(p, s, k, d))
          ELSE IF strategy = 1 THEN repetitionSquares(p, s, k)
          ELSE IF strategy = 2 THEN repetitionWave(p, s, k)
          ELSE repetitionRadial(p, s, k, d))

(***************************************************************************)
(* composeGrid.                                                            *)
(***************************************************************************)
RECURSIVE divisionLinesUnreserved(_, _, _, _)
\* the division loop leaving no room for the lines still to come
divisionLinesUnreserved(lines, i, count, us) ==
  IF i = count THEN Append(lines, CANVAS * Q20)
  ELSE LET prev == lines[Len(lines)]
           minGap == Dec(56000)
           maxGap == CANVAS * Q20 - prev
       IN  divisionLinesUnreserved(
             Append(lines, prev + range(us[i + 1], minGap,
                                        IF maxGap > minGap + Q20 THEN maxGap
                                        ELSE minGap + Q20)),
             i + 1, count, us)

RECURSIVE divisionLines(_, _, _, _)
\* vLines and hLines of the MONDRIAN grid from step i on: every step adds
\* to the previous line a gap drawn between C * 0.1 and what is left when
\* C * 0.1 is kept for each line still to come (at least C * 0.1 + 1), and
\* C closes the list; us are the words drawn
divisionLines(lines, i, count, us) ==
  IF i = count THEN Append(lines, CANVAS * Q20)
  ELSE LET prev == lines[Len(lines)]
           minGap == Dec(56000)
           maxGap == CANVAS * Q20 - prev - minGap * (count - i)
       IN  divisionLines(
             Append(lines, prev + range(us[i + 1], minGap,
                                        IF maxGap > minGap + Q20 THEN maxGap
                                        ELSE minGap + Q20)),
             i + 1, count, us)

\* MONDRIAN: the coloured cells, the lines and the border.  The cells that
\* get a colour are the colorCount largest, and the one drawn for the gold
\* when it is not among them; each is painted in its own fill
gridMondrian(p, s, k, d) ==
  LET vCount == rangeInt(U(s, k + 1), 3, 5)
      kH == k + 1 + vCount
      hCount == rangeInt(U(s, kH + 1), 2, 4)
      kC == kH + 1 + hCount
      most == 2 + (3 * d) \div 100
      colorCount == rangeInt(U(s, kC + 1), 2, IF most < 4 THEN most ELSE 4)
      kG == kC + 1 + Len(p.colors) - 1
      sorted == (vCount + 1) * (hCount + 1)
      goldRank == rangeInt(U(s, kG + 1), 1, IF sorted - 1 < 4 THEN sorted - 1 ELSE 4)
      filled == (IF colorCount < sorted THEN colorCount ELSE sorted)
                + (IF sorted > colorCount /\ goldRank >= colorCount THEN 1 ELSE 0)
      kP == IF sorted > colorCount THEN kG + 1 ELSE kG
  IN  [i \in 1..filled |-> withShadow(el("art.rect", "cell.fill", rngSkip(s, kP + i)))]
      \o [i \in 1..(vCount + hCount) |->
            el("Shapes.thickLine", p.charcoal, rngSkip(s, kP + filled))]
      \o <<el("Shapes.rectOutline", p.charcoal, rngSkip(s, kP + filled))>>

\* KANDINSKY "THIRTEEN RECTANGLES": the rectangles, larger behind, then
\* the circles, the first of them the gold one
gridRectangles(p, s, k) ==
  LET rectCount == rangeInt(U(s, k + 1), 7, 13)
      kR == k + 1 + rectCount * (5 + spatialDraws(p.colors) + 1)
      kC == kR + rectCount
      circleCount == rangeInt(U(s, kC + 1), 1, 3)
      circle(i) ==
        withShadow(el("art.circle", weightedPick(U(s, kC + 5 + 6 * (i - 2) + 4), p.colors),
                      rngSkip(s, kC + 5 + 6 * (i - 1))))
  IN  [i \in 1..rectCount |->
         withShadow(el("art.rect", "spatialColor", rngSkip(s, kR + i)))]
      \o <<Glow(rngSkip(s, kC + 4)),
           withDeepShadow(el("art.circle", Gold, rngSkip(s, kC + 5)))>>
      \o [i \in 1..(circleCount - 1) |-> circle(i + 1)]

shapeTypes == <<"circle", "semicircle", "triangle", "rect", "quarter", "empty">>

\* one pass of the cell loops of the mixed grid: the outline, then the
\* shape picked among those that differ from the previous cell's
mixedCell(p, s, st) ==
  LET differs(t) == t # st.prevShape
      avail == SelectSeq(shapeTypes, differs)
      shape == avail[pick(U(s, st.k + 1), Len(avail))]
      k1 == st.k + 1 + spatialDraws(p.colors) + 1
      isFilledShape == GreaterThan(U(s, k1), 30)
      outline == el("Shapes.rectOutline", p.charcoal, rngSkip(s, st.k))
      drawn ==
        IF shape = "circle"
          THEN IF isFilledShape
                 THEN [prims |-> <<el("art.circle", "spatialColor", rngSkip(s, k1 + 1))>>,
                       k |-> k1 + 1]
                 ELSE [prims |-> <<el("Shapes.circleOutline", "spatialColor",
                                      rngSkip(s, k1))>>,
                       k |-> k1]
        ELSE IF shape = "semicircle"
          THEN [prims |-> <<el("art.semicircle", "spatialColor", rngSkip(s, k1 + 1))>>,
                k |-> k1 + 1]
        ELSE IF shape = "triangle"
          THEN [prims |-> <<el("art.triangle", "spatialColor", rngSkip(s, k1 + 1))>>,
                k |-> k1 + 1]
        ELSE IF shape = "rect"
          THEN IF LessThan(U(s, k1 + 1), 30)
                 THEN [prims |-> <<el("art.rect", "spatialColor", rngSkip(s, k1 + 2)),
                                   el("art.rect", weightedPick(U(s, k1 + 3), p.colors),
                                      rngSkip(s, k1 + 4))>>,
                       k |-> k1 + 4]
                 ELSE [prims |-> <<el("art.rect", "spatialColor", rngSkip(s, k1 + 2))>>,
                       k |-> k1 + 2]
        ELSE IF shape = "quarter"
          THEN [prims |-> <<el("Shapes.quarterCircle", "spatialColor",
                               rngSkip(s, k1 + 3))>>,
                k |-> k1 + 3]
        ELSE [prims |-> <<>>, k |-> k1]
  IN  [prims |-> st.prims \o <<outline>> \o drawn.prims, k |-> drawn.k,
       prevShape |-> shape, i |-> st.i + 1]

RECURSIVE mixedCells(_, _, _, _)
\* the n * n cells, row by row
mixedCells(p, s, st, cells) ==
  IF st.i = cells THEN st ELSE mixedCells(p, s, mixedCell(p, s, st), cells)

\* MIXED GEOMETRY GRID
gridMixed(p, s, k, d) ==
  LET n == IF d > 70 THEN 5 ELSE IF d > 40 THEN 4 ELSE 3
      body == mixedCells(p, s, [prims |-> <<>>, k |-> k, prevShape |-> "", i |-> 0], n * n)
  IN  body.prims
      \o <<Glow(rngSkip(s, body.k + 2)),
           withDeepShadow(el("art.circle", Gold, rngSkip(s, body.k + 3)))>>

composeGrid(p, s, d) ==
  LET strategy == strategyOf("composeGrid", p, s, d)
      k == NoiseDraws + 1
  IN  <<el("Shapes.rect", p.bg, rngSkip(s, NoiseDraws))>>
      \o (IF strategy = 0 THEN gridMondrian(p, s, k, d)
          ELSE IF strategy = 1 THEN gridRectangles(p, s, k)
          ELSE gridMixed(p, s, k, d))

(***************************************************************************)
(* composeDotField.  The dots draw nothing; a dot whose colour follows its *)
(* distance from the sphere or its place along the gradient carries the    *)
(* name of that choice.                                                    *)
(***************************************************************************)
\* Math.floor(base + density * per)
densityFloor(base, per, d) == base + (per * d) \div 100

\* VASARELY SPHERE: the dot grid, then the gold highlight, a halo and a
\* circle without shadow
dotFieldSphere(p, s, k, d) ==
  LET gridN == rangeInt(U(s, k + 1), 10, densityFloor(10, 8, d))
      dot == el("Shapes.dot", "dotColor", rngSkip(s, k + 5))
  IN  [i \in 1..(gridN * gridN) |-> dot]
      \o <<Glow(rngSkip(s, k + 6)), el("art.circle", Gold, rngSkip(s, k + 7))>>

\* a^2 of a canvas length, in 2^-8
square(a) == LET m == IF a < 0 THEN 0 - a ELSE a
             IN  MulHi(ToInt32(m), ToInt32(m))

\* isInsideOverlay for one overlay
insideOverlay(ov, px, py) ==
  IF ov.type = "circle"
    THEN square(px - ov.x) + square(py - ov.y) < square(ov.size)
    ELSE /\ 2 * px > 2 * ov.x - ov.size
         /\ 2 * px < 2 * ov.x + ov.size
         /\ 2 * py > 2 * ov.y - ov.size
         /\ 2 * py < 2 * ov.y + ov.size

\* BAYER TYPOGRAPHIC GRID: the dot grid masked by the overlays, then the
\* overlays themselves
dotFieldBayer(p, s, k, d) ==
  LET gridN == rangeInt(U(s, k + 1), 10, densityFloor(10, 6, d))
      spacing == (CANVAS * Q20) \div (gridN + 1)
      overlayCount == rangeInt(U(s, k + 3), 1, 3)
      overlay(i) ==
        LET ko == k + 3 + 6 * (i - 1)
        IN  [type |-> <<"rect", "circle", "triangle", "bar">>[pick(U(s, ko + 1), 4)],
             x |-> range(U(s, ko + 2), Dec(84000), Dec(364000)),
             y |-> range(U(s, ko + 3), Dec(84000), Dec(364000)),
             size |-> range(U(s, ko + 4), Dec(84000), Dec(168000)),
             color |-> p.colors[pick(U(s, ko + 5), Len(p.colors))]]
      overlays == [i \in 1..overlayCount |-> overlay(i)]
      kM == k + 3 + 6 * overlayCount + 1
      maskMode == <<"disappear", "gold", "enlarge", "outline">>[pick(U(s, kM), 4)]
      inside(i) == \E j \in 1..overlayCount :
                     insideOverlay(overlays[j], spacing * (((i - 1) % gridN) + 1),
                                   spacing * (((i - 1) \div gridN) + 1))
      plain == el("Shapes.dot", p.charcoal, rngSkip(s, kM))
      masked == IF maskMode = "gold" THEN el("Shapes.dot", Gold, rngSkip(s, kM))
                ELSE IF maskMode = "outline"
                  THEN el("Shapes.circleOutline", p.charcoal, rngSkip(s, kM))
                ELSE IF maskMode = "enlarge" THEN plain
                ELSE el("", "", rngSkip(s, kM))
      dot(i) == IF inside(i) THEN masked ELSE plain
      drawn(e) == e.kind # ""
      draws(i) == Cardinality({j \in 1..i : overlays[j].type # "triangle"})
      kind == [rect |-> "art.rect", circle |-> "art.circle",
               triangle |-> "art.triangle", bar |-> "art.bar"]
  IN  SelectSeq([i \in 1..(gridN * gridN) |-> dot(i)], drawn)
      \o [i \in 1..overlayCount |->
            withShadow(el(kind[overlays[i].type], overlays[i].color,
                          rngSkip(s, kM + draws(i))))]

\* GRADIENT FIELD: the dots, then the gold overlay
dotFieldGradient(p, s, k, d) ==
  LET gridN == rangeInt(U(s, k + 1), 12, densityFloor(12, 6, d))
      ovType == pick(U(s, k + 3), 3)
      dot == el("Shapes.dot", "dotColor", rngSkip(s, k + 2))
  IN  [i \in 1..(gridN * gridN) |-> dot]
      \o (IF ovType = 1
            THEN <<withDeepShadow(el("art.rect", Gold, rngSkip(s, k + 7))),
                   el("Shapes.rectOutline", p.charcoal, rngSkip(s, k + 7))>>
          ELSE IF ovType = 2
            THEN <<Glow(rngSkip(s, k + 6)),
                   withDeepShadow(el("art.circle", Gold, rngSkip(s, k + 7))),
                   el("Shapes.circleOutline", p.charcoal, rngSkip(s, k + 7))>>
          ELSE <<withDeepShadow(el("art.triangle", Gold, rngSkip(s, k + 7)))>>)

composeDotField(p, s, d) ==
  LET strategy == strategyOf("composeDotField", p, s, d)
      k == NoiseDraws + 1
  IN  <<el("Shapes.rect", p.bg, rngSkip(s, NoiseDraws))>>
      \o (IF strategy = 0 THEN dotFieldSphere(p, s, k, d)
          ELSE IF strategy = 1 THEN dotFieldBayer(p, s, k, d)
          ELSE dotFieldGradient(p, s, k, d))

(***************************************************************************)
(* composeArabianGeometric.  "polygon" is an element built directly with   *)
(* el('polygon', ...).                                                     *)
(***************************************************************************)
\* STAR TESSELLATION
arabianStar(p, s, k, d) ==
  LET n == Len(p.colors)
      foldCount == <<8, 10, 12>>[pick(U(s, k + 1), 3)]
      g == rngSkip(s, k + 1)
      ring == el("Shapes.circleOutline", p.charcoal, g)
      layers == <<p.colors[1], p.colors[2],
                  IF n >= 3 THEN p.colors[3] ELSE p.colors[1], Gold>>
      line == el("Shapes.thinLine", p.charcoal, g)
  IN  <<el("Shapes.circle", p.charcoal, g),
        el("polygon", layers[1], g), ring, el("polygon", layers[2], g), ring,
        el("polygon", layers[3], g), ring, el("polygon", layers[4], g)>>
      \o [i \in 1..(2 * foldCount) |-> line]
      \o [i \in 1..foldCount |-> el("polygon", p.colors[((i + 1) % n) + 1], g)]
      \o [i \in 1..foldCount |-> el("Shapes.circle", Gold, g)]
      \o (IF d > 35
            THEN [i \in 1..8 |->
                    IF i % 2 = 1
                      THEN el("Shapes.quarterCircle", p.colors[(((i - 1) \div 2) % n) + 1], g)
                      ELSE ring]
            ELSE <<>>)
      \o <<Glow(rngSkip(s, k + 2)),
           withDeepShadow(el("art.circle", Gold, rngSkip(s, k + 3))),
           el("Shapes.rectOutline", p.charcoal, rngSkip(s, k + 3))>>

\* Math.ceil(a / b) of two positive canvas lengths
ceilDiv(a, b) == (a + b - 1) \div b

\* GIRIH TILE FIELD: the tiles row by row, each a star, its hexagon when
\* density > 0.25 and its dot when density > 0.4; then the medallion
arabianGirih(p, s, k, d) ==
  LET n == Len(p.colors)
      tileSize == range(U(s, k + 1), Dec(56000), Dec(89600))
      cols == ceilDiv(CANVAS * Q20, tileSize) + 2
      rows == ceilDiv(CANVAS * Q20, Scale(tileSize, Dec(866))) + 2
      per == 1 + (IF d > 25 THEN 1 ELSE 0) + (IF d > 40 THEN 1 ELSE 0)
      tiles == (rows + 1) * (cols + 1)
      colorIdx(t) == ((t \div (cols + 1)) - 1 + (t % (cols + 1)) - 1) % n
      part(t, j) ==
        IF j = 0 THEN el("polygon", p.colors[colorIdx(t) + 1], rngSkip(s, k + 3 + t + 1))
        ELSE IF j = 1 /\ d > 25
          THEN el("polygon", p.colors[((colorIdx(t) + 2) % n) + 1],
                  rngSkip(s, k + 3 + t + 1))
        ELSE el("Shapes.dot", p.charcoal, rngSkip(s, k + 3 + t + 1))
      kM == k + 3 + tiles + 1
      g == rngSkip(s, kM)
      g2 == rngSkip(s, kM + 1)
  IN  [i \in 1..(tiles * per) |-> part((i - 1) \div per, (i - 1) % per)]
      \o <<withShadow(el("Shapes.circle", p.bg, g)),
           el("Shapes.circleOutline", p.charcoal, g),
           el("Shapes.circleOutline", p.charcoal, g),
           el("polygon", p.colors[1], g2), el("polygon", Gold, g2),
           Glow(g2), withDeepShadow(el("art.circle", Gold, rngSkip(s, kM + 2))),
           el("Shapes.rectOutline", p.charcoal, rngSkip(s, kM + 2)),
           el("Shapes.rectOutline", p.charcoal, rngSkip(s, kM + 2))>>

\* one pass of the ring loop of the dome, from the outermost ring inwards:
\* the ring outline, then the elements around the ring
muqarnasRing(p, s, st, foldCount) ==
  LET ring == st.ring
      elemCount == foldCount * (IF ring = 0 THEN 1 ELSE ring + 1)
      ringColor == p.colors[(ring % Len(p.colors)) + 1]
      kind(i) == <<"Shapes.rotatedRect", "Shapes.triangle", "Shapes.circle",
                   "polygon">>[((ring + i) % 4) + 1]
  IN  [prims |-> st.prims
                 \o <<el("Shapes.circleOutline", p.charcoal, rngSkip(s, st.k + 1))>>
                 \o [i \in 1..elemCount |->
                       el(kind(i - 1), ringColor, rngSkip(s, st.k + 1 + i))],
       k |-> st.k + 1 + elemCount,
       ring |-> ring - 1]

RECURSIVE muqarnasRings(_, _, _, _)
\* for (let ring = ringCount - 1; ring >= 0; ring--)
muqarnasRings(p, s, st, foldCount) ==
  IF st.ring < 0 THEN st
  ELSE muqarnasRings(p, s, muqarnasRing(p, s, st, foldCount), foldCount)

\* MUQARNAS RADIAL
arabianMuqarnas(p, s, k, d) ==
  LET n == Len(p.colors)
      foldCount == <<8, 10, 12>>[pick(U(s, k + 1), 3)]
      ringCount == rangeInt(U(s, k + 2), 4, 6)
      dome == rngSkip(s, k + 2)
      body == muqarnasRings(p, s,
                [prims |-> <<el("Shapes.circle", p.charcoal, dome),
                             el("Shapes.circleOutline", p.charcoal, dome)>>,
                 k |-> k + 2, ring |-> ringCount - 1], foldCount)
      g == rngSkip(s, body.k)
  IN  body.prims
      \o [i \in 1..foldCount |-> el("Shapes.thinLine", p.charcoal, g)]
      \o <<Glow(g), withDeepShadow(el("art.circle", Gold, rngSkip(s, body.k + 1))),
           el("polygon", "none", rngSkip(s, body.k + 1))>>
      \o (IF d > 30
            THEN [i \in 1..4 |-> el("polygon", p.colors[n], rngSkip(s, body.k + 1))]
            ELSE <<>>)

composeArabianGeometric(p, s, d) ==
  LET strategy == strategyOf("composeArabianGeometric", p, s, d)
      k == NoiseDraws + 1
  IN  <<el("Shapes.rect", p.bg, rngSkip(s, NoiseDraws))>>
      \o (IF strategy = 0 THEN arabianStar(p, s, k, d)
          ELSE IF strategy = 1 THEN arabianGirih(p, s, k, d)
          ELSE arabianMuqarnas(p, s, k, d))

(***************************************************************************)
(* The state.  container is the list of children of the page element the   *)
(* engine renders into; last is the most recent call of the public API     *)
(* with what it returned; seen is one earlier call an observer kept.       *)
(* request and scene are a composer's inputs and the primitives it         *)
(* appended.  controller is what renderAnimated built (the elements, their *)
(* inline styles, the overlays, the playing flag), timers the pending      *)
(* setTimeout callbacks in registration order, completed the number of     *)
(* onComplete invocations, observed what an observer of the controller     *)
(* noted of the calls made on it.                                          *)
(***************************************************************************)
VARIABLES container, last, seen, request, scene,
          controller, timers, completed, observed,
          gen, twin, lib, noise, spatialGrid, hero

\* the state of the library functions called on their own: two generators
\* created from one seed, the last utility call and what it returned, the
\* noise field built and the spatial grid; and the hero artwork of the page
libVars == <<gen, twin, lib, noise, spatialGrid, hero>>

vars == <<container, last, seen, request, scene,
          controller, timers, completed, observed, libVars>>

(***************************************************************************)
(* The dispatch tables.  The tables are object literals, so a key that is  *)
(* not their own is looked up in Object.prototype: what is found there is  *)
(* truthy, has no colors, and called as a composer (this undefined) either *)
(* returns without appending or raises a TypeError.                        *)
(***************************************************************************)
COMPOSERS ==
  [FREE_FORM |-> [composer |-> "composeFreeForm"],
   GRID |-> [composer |-> "composeGrid"],
   REPETITION |-> [composer |-> "composeRepetition"],
   CONSTRUCTIVIST |-> [composer |-> "composeConstructivist"],
   COLOR_STUDY |-> [composer |-> "composeColorStudy"],
   DOT_FIELD |-> [composer |-> "composeDotField"],
   ARABIAN_GEOMETRIC |-> [composer |-> "composeArabianGeometric"]]

ObjectPrototype ==
  "constructor" :> [called |-> "returns"]
  @@ "toString" :> [called |-> "returns"]
  @@ "valueOf" :> [called |-> "TypeError"]
  @@ "hasOwnProperty" :> [called |-> "TypeError"]
  @@ "__proto__" :> [called |-> "TypeError"]

undefined == [undefined |-> TRUE]

\* table[key] of an object literal
lookup(table, key) ==
  IF key \in DOMAIN table THEN table[key]
  ELSE IF key \in DOMAIN ObjectPrototype THEN ObjectPrototype[key]
  ELSE undefined

\* composer(svg, palette, rng, density, uid): the children appended to svg
compose(composer, p, s, d) ==
  IF "composer" \notin DOMAIN composer THEN <<>>
  ELSE IF composer.composer = "composeFreeForm" THEN composeFreeForm(p, s, d)
  ELSE IF composer.composer = "composeGrid" THEN composeGrid(p, s, d)
  ELSE IF composer.composer = "composeRepetition" THEN composeRepetition(p, s, d)
  ELSE IF composer.composer = "composeConstructivist"
    THEN composeConstructivist(p, s, d)
  ELSE IF composer.composer = "composeColorStudy" THEN composeColorStudy(p, s, d)
  ELSE IF composer.composer = "composeDotField" THEN composeDotField(p, s, d)
  ELSE composeArabianGeometric(p, s, d)

\* addDefs(svg, seed, palette): the defs element, its definitions in order
\* under their ids without the uid prefix; palette.colors[0] raises a
\* TypeError when the palette has no colors
addDefs(seed, palette) ==
  IF "colors" \notin DOMAIN palette
    THEN [uid |-> seed, threw |-> TRUE, turbulence |-> seed % 1000,
          ids |-> <<"paper", "shadow", "deep-shadow", "vignette">>,
          stops |-> <<>>]
    ELSE [uid |-> seed, threw |-> FALSE, turbulence |-> seed % 1000,
          ids |-> <<"paper", "shadow", "deep-shadow", "vignette",
                    "warm", "cool", "depth", "glow">>,
          stops |-> <<palette.colors[1], Gold, palette.colors[2],
                      palette.colors[3], palette.charcoal, Gold>>]

\* the three rectangles appended after the composer's children
overlays ==
  <<[fill |-> "url(#depth)", filter |-> "", opacity |-> "1"],
    [fill |-> "url(#vignette)", filter |-> "", opacity |-> "1"],
    [fill |-> "transparent", filter |-> "url(#paper)", opacity |-> "0.07"]>>

NoDocument == <<>>

\* render from the generator on: its return value, whether it wrote to
\* console.error, and the svg element it built as a one-element list
renderWith(options, rng) ==
  LET found == lookup(PALETTES, options.palette)
      palette == IF found = undefined THEN PALETTES.ZSIGNAL ELSE found
      composer == lookup(COMPOSERS, options.archetype)
      defs == addDefs(options.seed, palette)
  IN  IF composer = undefined
        THEN [returns |-> "null", diagnostic |-> TRUE, document |-> NoDocument]
      ELSE IF defs.threw
             \/ ("called" \in DOMAIN composer /\ composer.called = "TypeError")
        THEN [returns |-> "TypeError", diagnostic |-> FALSE,
              document |-> NoDocument]
      ELSE [returns |-> "svg", diagnostic |-> FALSE,
            document |-> <<[defs |-> defs,
                            children |-> compose(composer, palette, rng,
                                                 options.density),
                            overlays |-> overlays]>>]

NoCall == [api |-> "none"]

\* render drawing from one generator kept by the engine: created from the
\* seed of the first call and drawn from by every later one
renderShared(options) ==
  renderWith(options,
             IF last = NoCall THEN createRng(options.seed)
             ELSE rngAdvance(createRng(last.options.seed)))

render(options) == renderWith(options, createRng(options.seed))

(***************************************************************************)
(* The requests of the model: a composer of the table, an unknown          *)
(* archetype and two keys of Object.prototype; a palette of the table, an  *)
(* unknown palette id and a key of Object.prototype.                       *)
(***************************************************************************)
Archetypes == {"COLOR_STUDY", "GRID", "NOT_REAL", "constructor", "__proto__"}

PaletteIds == {"ZSIGNAL", "NOT_A_PALETTE", "constructor"}

Seeds == {1, 36787}

Densities == {50}

Requests ==
  [archetype : Archetypes, palette : PaletteIds, seed : Seeds, density : Densities]

\* what render does with each request of the model, as a table
rendered == [options \in Requests |-> render(options)] @@ <<>>

\* renderToString(options): render into a detached div and return its
\* innerHTML, the markup of the div's children
innerHTML(svg) ==
  IF svg.returns = "TypeError" THEN svg ELSE [svg EXCEPT !.returns = "string"]

renderToString(options) == innerHTML(rendered[options])

(***************************************************************************)
(* renderAnimated.  A timer is a pending setTimeout callback: its kind     *)
(* (the reveal of a shape, the style reset a reveal schedules, the final   *)
(* polish), the shape it is for, the milliseconds left until it is due,    *)
(* whether its id is in the timeouts array, and the play() that scheduled  *)
(* it.                                                                     *)
(***************************************************************************)
delayPerElement == 90

initialDelay == 400

entryStyles ==
  <<"scale-up", "slide-left", "slide-right", "slide-up", "slide-down",
    "rotate-in", "zoom-pop">>

\* the hidden state of an element by entry type
hidden(style) ==
  [opacity |-> "0",
   transform |->
     IF style = "scale-up" THEN "scale(0.3)"
     ELSE IF style = "slide-left" THEN "translateX(-80px)"
     ELSE IF style = "slide-right" THEN "translateX(80px)"
     ELSE IF style = "slide-up" THEN "translateY(-60px)"
     ELSE IF style = "slide-down" THEN "translateY(60px)"
     ELSE IF style = "rotate-in" THEN "scale(0.5) rotate(-45deg)"
     ELSE "scale(1.6)"]

\* shapeElements without the filter: every child the composer appended
allElements(children) == children

\* the children of svg other than defs and the background rect
shapeElements(children) ==
  IF children # <<>> /\ children[1].kind = "Shapes.rect" THEN Tail(children)
  ELSE children

\* the three finishing rectangles, appended with opacity 0
hiddenOverlays ==
  <<[fill |-> "url(#depth)", filter |-> "", opacity |-> "0"],
    [fill |-> "url(#vignette)", filter |-> "", opacity |-> "0"],
    [fill |-> "transparent", filter |-> "url(#paper)", opacity |-> "0"]>>

\* renderAnimated from the composed svg on: every shape gets its entry
\* style and duration from createRng(seed + 7777) and its hidden state, the
\* overlays are appended and the svg is mounted
animate(options, svg) ==
  LET shapes == shapeElements(svg.children)
      animRng == createRng(options.seed + 7777)
  IN  [returns |-> "controller",
       document |-> <<[defs |-> svg.defs, children |-> svg.children,
                       overlays |-> hiddenOverlays]>>,
       shapes |-> [i \in 1..Len(shapes) |->
                     [entryStyle |-> entryStyles[pick(U(animRng, 2 * i - 1), 7)],
                      dur |-> 550 + rangeInt(U(animRng, 2 * i), 0, 249),
                      opacity |-> shapes[i].opacity,
                      el |-> shapes[i]]],
       styles |-> [i \in 1..Len(shapes) |->
                     hidden(entryStyles[pick(U(animRng, 2 * i - 1), 7)])],
       overlays |-> <<"", "", "">>,
       playing |-> FALSE,
       elementCount |-> Len(shapes)]

\* renderAnimated composing with the generator of the entry styles
renderAnimatedOneRng(options) ==
  LET found == lookup(PALETTES, options.palette)
      palette == IF found = undefined THEN PALETTES.ZSIGNAL ELSE found
      composer == lookup(COMPOSERS, options.archetype)
  IN  IF composer = undefined THEN [returns |-> "null"]
      ELSE animate(options,
                   [defs |-> addDefs(options.seed, palette),
                    children |-> compose(composer, palette,
                                         createRng(options.seed + 7777),
                                         options.density)])

\* renderAnimated(container, options) on a container of the page: null for
\* an unknown archetype, else the controller over the svg it builds
renderAnimated(options) ==
  LET found == lookup(PALETTES, options.palette)
      palette == IF found = undefined THEN PALETTES.ZSIGNAL ELSE found
      composer == lookup(COMPOSERS, options.archetype)
      defs == addDefs(options.seed, palette)
  IN  IF composer = undefined THEN [returns |-> "null"]
      ELSE IF defs.threw
             \/ ("called" \in DOMAIN composer /\ composer.called = "TypeError")
        THEN [returns |-> "TypeError"]
      ELSE animate(options,
                   [defs |-> defs,
                    children |-> compose(composer, palette,
                                         createRng(options.seed),
                                         options.density)])

\* stop() with the timeouts array emptied and left with the pending timers:
\* a forgotten clearTimeout
stopKeepsTimers(ctl, pending) ==
  [controller |-> [ctl EXCEPT !.playing = FALSE], timers |-> pending]

\* stop() as a function that returns at once
stopIdle(ctl, pending) == [controller |-> ctl, timers |-> pending]

\* stop(): clearTimeout on every id of timeouts, timeouts = [], playing = false
stop(ctl, pending) ==
  [controller |-> [ctl EXCEPT !.playing = FALSE],
   timers |-> SelectSeq(pending, LAMBDA t : ~t.tracked)]

\* shape.style.opacity = shape.getAttribute('opacity') || '' and
\* shape.style.transform = ''
settled(shape) == [opacity |-> shape.opacity, transform |-> ""]

\* the timer whose callback runs next: the earliest due, the first
\* registered among equals
nextTimer(pending) ==
  CHOOSE i \in 1..Len(pending) :
    \A j \in 1..Len(pending) :
      pending[i].due < pending[j].due \/ (pending[i].due = pending[j].due /\ i <= j)

\* the pending timers after time has passed up to the callback of timer i
elapsed(pending, i) ==
  LET rest == [j \in 1..(Len(pending) - 1) |->
                 IF j < i THEN pending[j] ELSE pending[j + 1]]
  IN  [j \in 1..Len(rest) |-> [rest[j] EXCEPT !.due = @ - pending[i].due]]

(***************************************************************************)
(* The engine: calls of render and renderToString on one page.             *)
(***************************************************************************)
NoRequest == [archetype |-> "none"]

NoController == [returns |-> "none"]

NoObservation == [plays |-> 0, called |-> "none", interrupted |-> FALSE]

\* the parts of the state a specification leaves alone
EngineIdle == container = <<>> /\ last = NoCall /\ seen = NoCall

ComposerIdle == request = NoRequest /\ scene = <<>>

ControllerIdle ==
  /\ controller = NoController
  /\ timers = <<>>
  /\ completed = 0
  /\ observed = NoObservation

NoRng == [seed |-> 0, s |-> <<0, 0>>, draws |-> 0, u |-> <<0, 0>>]

NoNoise == [perm |-> <<>>, from |-> 0]

\* a page without the hero artwork
NoHero == [step |-> "none"]

LibraryIdle ==
  /\ gen = NoRng
  /\ twin = NoRng
  /\ lib = NoCall
  /\ noise = NoNoise
  /\ spatialGrid = EmptyGrid
  /\ hero = NoHero

Init == EngineIdle /\ ComposerIdle /\ ControllerIdle /\ LibraryIdle

\* render(container, options): a successful render replaces the children
\* of the container
Render ==
  \E options \in Requests :
    \E svg \in {rendered[options]} :
    LET call == [api |-> "render", options |-> options, result |-> svg]
    IN  /\ last' = call
        /\ container' = IF svg.returns = "svg" THEN svg.document ELSE container
        /\ seen' \in {seen, call}
        /\ UNCHANGED <<libVars, request, scene, controller, timers, completed, observed>>

\* renderToString(options): the page's container is not touched
RenderToString ==
  \E options \in Requests :
    \E markup \in {renderToString(options)} :
    LET call == [api |-> "renderToString", options |-> options,
                 result |-> markup]
    IN  /\ last' = call
        /\ seen' \in {seen, call}
        /\ UNCHANGED <<libVars, container, request, scene, controller, timers, completed,
                       observed>>

Next == Render \/ RenderToString

Spec == Init /\ [][Next]_vars

(***************************************************************************)
(* A composer applied to one request.                                      *)
(***************************************************************************)
ComposeSeeds == {1, 2, 5, 6, 7, 8, 9, 24, 26, 36787}

ComposeDensities == {20, 50, 90}

ComposeRequests ==
  [archetype : DOMAIN COMPOSERS, palette : {"ZSIGNAL", "CLASSIC_BAUHAUS"},
   seed : ComposeSeeds, density : ComposeDensities]

InitCompose ==
  /\ request \in ComposeRequests
  /\ scene = <<>>
  /\ EngineIdle
  /\ ControllerIdle
  /\ LibraryIdle

\* composer(svg, palette, rng, density, uid) on a fresh svg
Compose ==
  /\ scene = <<>>
  /\ scene' = compose(COMPOSERS[request.archetype], PALETTES[request.palette],
                      createRng(request.seed), request.density)
  /\ UNCHANGED <<libVars, container, last, seen, request, controller, timers, completed,
                 observed>>

NextCompose == Compose

SpecCompose == InitCompose /\ [][NextCompose]_vars

(***************************************************************************)
(* A controller returned by renderAnimated, its timers, and the calls made *)
(* on it.  Time passes when a timer's callback runs and in pauses between  *)
(* the calls.                                                              *)
(***************************************************************************)
MaxPlays == 3

Pause == 100

AnimRequests ==
  [archetype : {"COLOR_STUDY", "CONSTRUCTIVIST", "NOT_REAL"}, palette : {"ZSIGNAL"},
   seed : {3, 5}, density : {20}]

\* renderAnimated has returned: a controller over the svg mounted in the
\* container, or no controller and the container as it was
InitAnim ==
  /\ request \in AnimRequests
  /\ controller = renderAnimated(request)
  /\ container = IF controller.returns = "controller" THEN controller.document
                 ELSE <<>>
  /\ timers = <<>>
  /\ completed = 0
  /\ observed = NoObservation
  /\ last = NoCall
  /\ seen = NoCall
  /\ scene = <<>>
  /\ LibraryIdle

mounted == controller.returns = "controller"

\* the timers of a play() whose final polish comes due at once
scheduledFinalFirst(run) ==
  LET n == Len(controller.shapes)
  IN  [i \in 1..(n + 1) |->
         IF i <= n
           THEN [kind |-> "reveal", shape |-> i,
                 due |-> initialDelay + (i - 1) * delayPerElement,
                 tracked |-> TRUE, run |-> run]
           ELSE [kind |-> "final", shape |-> 0, due |-> 0,
                 tracked |-> TRUE, run |-> run]]

\* the timers play() registers: one reveal per shape, then the final polish
scheduled(run) ==
  LET n == Len(controller.shapes)
  IN  [i \in 1..(n + 1) |->
         IF i <= n
           THEN [kind |-> "reveal", shape |-> i,
                 due |-> initialDelay + (i - 1) * delayPerElement,
                 tracked |-> TRUE, run |-> run]
           ELSE [kind |-> "final", shape |-> 0,
                 due |-> initialDelay + n * delayPerElement + 400,
                 tracked |-> TRUE, run |-> run]]

finalOverlays == <<"1", "1", "0.07">>

Play ==
  /\ mounted
  /\ observed.plays < MaxPlays
  /\ controller' =
       [stop(controller, timers).controller EXCEPT
          !.playing = TRUE,
          !.styles = [i \in DOMAIN controller.shapes |->
                        hidden(controller.shapes[i].entryStyle)],
          !.overlays = <<"0", "0", "0">>]
  /\ timers' = stop(controller, timers).timers \o scheduled(observed.plays + 1)
  /\ observed' = [plays |-> observed.plays + 1, called |-> "play",
                  interrupted |-> FALSE]
  /\ UNCHANGED <<libVars, container, last, seen, request, scene, completed>>

Stop ==
  /\ mounted
  /\ controller' = stop(controller, timers).controller
  /\ timers' = stop(controller, timers).timers
  /\ observed' = [observed EXCEPT
                    !.called = "stop",
                    !.interrupted = @ \/ controller.playing]
  /\ UNCHANGED <<libVars, container, last, seen, request, scene, completed>>

Reveal ==
  /\ mounted
  /\ controller' =
       [stop(controller, timers).controller EXCEPT
          !.styles = [i \in DOMAIN controller.shapes |->
                        settled(controller.shapes[i])],
          !.overlays = finalOverlays]
  /\ timers' = stop(controller, timers).timers
  /\ observed' = [observed EXCEPT !.called = "reveal", !.interrupted = FALSE]
  /\ UNCHANGED <<libVars, container, last, seen, request, scene, completed>>

\* the callback of a reveal timer: the shape is shown and its style reset
\* is scheduled, in a timer whose id is not kept
RevealStep ==
  /\ timers # <<>>
  /\ LET i == nextTimer(timers)
         t == timers[i]
     IN  /\ t.kind = "reveal"
         /\ IF controller.playing
              THEN /\ controller' =
                        [controller EXCEPT
                           !.styles[t.shape] =
                             [opacity |-> "",
                              transform |->
                                "scale(1) rotate(0deg) translateX(0) translateY(0)"]]
                   /\ timers' =
                        Append(elapsed(timers, i),
                               [kind |-> "reset", shape |-> t.shape,
                                due |-> controller.shapes[t.shape].dur + 50,
                                tracked |-> FALSE, run |-> t.run])
              ELSE /\ controller' = controller
                   /\ timers' = elapsed(timers, i)
  /\ UNCHANGED <<libVars, container, last, seen, request, scene, completed, observed>>

\* the callback of the nested timer
ResetStep ==
  /\ timers # <<>>
  /\ LET i == nextTimer(timers)
         t == timers[i]
     IN  /\ t.kind = "reset"
         /\ controller' =
              [controller EXCEPT
                 !.styles[t.shape] = settled(controller.shapes[t.shape])]
         /\ timers' = elapsed(timers, i)
  /\ UNCHANGED <<libVars, container, last, seen, request, scene, completed, observed>>

\* the callback of finalT
FinalStep ==
  /\ timers # <<>>
  /\ LET i == nextTimer(timers)
     IN  /\ timers[i].kind = "final"
         /\ timers' = elapsed(timers, i)
  /\ IF controller.playing
       THEN /\ controller' = [controller EXCEPT !.overlays = finalOverlays,
                                                !.playing = FALSE]
            /\ completed' = completed + 1
       ELSE UNCHANGED <<controller, completed, hero>>
  /\ UNCHANGED <<libVars, container, last, seen, request, scene, observed>>

\* time passes without a callback becoming due
Wait ==
  /\ timers # <<>>
  /\ Pause < timers[nextTimer(timers)].due
  /\ timers' = [j \in DOMAIN timers |-> [timers[j] EXCEPT !.due = @ - Pause]]
  /\ UNCHANGED <<libVars, container, last, seen, request, scene, controller, completed,
                 observed>>

NextAnim ==
  Play \/ Stop \/ Reveal \/ RevealStep \/ ResetStep \/ FinalStep \/ Wait

SpecAnim == InitAnim /\ [][NextAnim]_vars

\* every timer set is run by the event loop once it is due, and time passes
TimerSteps == RevealStep \/ ResetStep \/ FinalStep \/ Wait

SpecAnimFair == InitAnim /\ [][NextAnim]_vars /\ WF_vars(TimerSteps)

UnknownArchetypeOnlyFailure ==
  last.api = "render"
    => /\ last.options.archetype \notin DOMAIN COMPOSERS
            => last.result.returns = "null" /\ last.result.diagnostic
       /\ last.result.returns # "svg"
            => /\ last.options.archetype \notin DOMAIN COMPOSERS
               /\ last.result.returns = "null"

\* C3: render with a palette id that is not a key of the palette table
\* produces the document the same request with ZSIGNAL produces
UnknownPaletteIsDefault ==
  (/\ last.api = "render"
   /\ last.options.palette \notin DOMAIN PALETTES
   /\ last.options.archetype \in DOMAIN COMPOSERS)
    => /\ last.result.returns = "svg"
       /\ last.result = rendered[[last.options EXCEPT !.palette = "ZSIGNAL"]]

(***************************************************************************)
(* Properties of the controller (SpecAnim).                                *)
(***************************************************************************)
\* C4: during a run, if the element at paint index j is visible then every
\* element at a smaller paint index is visible
PaintOrder ==
  (mounted /\ controller.playing)
    => \A i, j \in DOMAIN controller.styles :
         (i < j /\ controller.styles[j].opacity # "0")
           => controller.styles[i].opacity # "0"

\* C5: once stop() has returned no deferred step is left pending, and the
\* styles of the elements and overlays stay as they are until the next call
StopFreezes ==
  /\ [](observed.called = "stop" => timers = <<>>)
  /\ [][(observed.called = "stop" /\ observed'.called = "stop")
          => controller' = controller]_vars

\* C6: every deferred step that can still fire was scheduled by the most
\* recent play()
OneTimeline ==
  \A i \in DOMAIN timers : timers[i].run = observed.plays

\* C7: after reveal(), until the next play(), every element has its final
\* opacity and no transform, the overlays are at 1, 1 and 0.07, isPlaying()
\* is false and no reveal and no final polish is pending
RevealIsTerminal ==
  observed.called = "reveal"
    => /\ ~controller.playing
       /\ controller.overlays = <<"1", "1", "0.07">>
       /\ \A i \in DOMAIN controller.styles :
            /\ controller.styles[i].opacity = controller.shapes[i].opacity
            /\ controller.styles[i].transform = ""
       /\ \A i \in DOMAIN timers : timers[i].kind = "reset"

\* C7: reveal() was called in the middle of a run, and style resets of
\* that run are still to fire
RevealedMidRun ==
  observed.called = "reveal" /\ observed.plays > 0 /\ timers # <<>>

\* C8: after a stop() during a run, until the next play() or reveal(), the
\* overlays are never all shown with every element revealed, and
\* onComplete is not invoked
StoppedNeverCompletes ==
  /\ [](observed.interrupted
          => \/ controller.overlays # <<"1", "1", "0.07">>
             \/ \E i \in DOMAIN controller.styles :
                  controller.styles[i].opacity = "0")
  /\ [][(observed.interrupted /\ observed'.interrupted)
          => completed' = completed]_vars

\* C8: stop() came after the last reveal of a run and before its final
\* polish, and every timer left has fired
StoppedBeforeFinal ==
  /\ observed.interrupted
  /\ timers = <<>>
  /\ controller.styles # <<>>
  /\ \A i \in DOMAIN controller.styles :
       controller.styles[i] = [opacity |-> controller.shapes[i].opacity,
                               transform |-> ""]

DocumentOrder ==
  (last.api = "render" /\ last.result.returns = "svg")
    => LET doc == last.result.document[1]
           palette == IF last.options.palette \in DOMAIN PALETTES
                        THEN PALETTES[last.options.palette]
                        ELSE PALETTES.ZSIGNAL
           once(id) == Cardinality({i \in DOMAIN doc.defs.ids :
                                      doc.defs.ids[i] = id}) = 1
       IN  /\ doc.children # <<>>
           /\ doc.children[1].kind = "Shapes.rect"
           /\ doc.children[1].fill = palette.bg
           /\ Len(doc.overlays) = 3
           /\ doc.overlays[1].fill = "url(#depth)" /\ once("depth")
           /\ doc.overlays[2].fill = "url(#vignette)" /\ once("vignette")
           /\ doc.overlays[3].filter = "url(#paper)" /\ once("paper")

\* C14: the documents of two renders of different requests never carry the
\* same definition ids
UniqueDefIds ==
  (/\ seen # NoCall
   /\ seen.result.returns \in {"svg", "string"}
   /\ last.result.returns \in {"svg", "string"}
   /\ seen.options # last.options)
    => seen.result.document[1].defs.uid # last.result.document[1].defs.uid

\* what render returns for each request a controller is built from
renderedScenes == [options \in AnimRequests |-> render(options)] @@ <<>>

\* the entry style and the duration createRng(seed + 7777) gives the i-th
\* shape, for each seed a controller is built from and each i up to the
\* length of the longest scene
entrances ==
  LET lens == {IF renderedScenes[o].returns = "svg"
                 THEN Len(renderedScenes[o].document[1].children) ELSE 0 :
               o \in AnimRequests}
      longest == CHOOSE n \in lens : \A m \in lens : m <= n
  IN  [seed \in {o.seed : o \in AnimRequests} |->
         [i \in 1..longest |->
            [entryStyle |-> entryStyles[pick(U(createRng(seed + 7777), 2 * i - 1), 7)],
             dur |-> 550 + rangeInt(U(createRng(seed + 7777), 2 * i), 0, 249)]]
         @@ <<>>] @@ <<>>

\* C12: the svg a controller is mounted on holds the defs and the children
\* render builds for the same request, followed by overlays naming the same
\* three definitions in the same order; and after any calls of play, stop
\* and reveal the entry style and the duration of the i-th shape are the
\* draws 2i - 1 and 2i of createRng(seed + 7777), whatever the archetype
AnimatedSameScene ==
  mounted
    => LET doc == container[1]
           svg == renderedScenes[request].document[1]
       IN  /\ doc.defs = svg.defs
           /\ doc.children = svg.children
           /\ Len(doc.overlays) = Len(svg.overlays)
           /\ \A i \in DOMAIN svg.overlays :
                 /\ doc.overlays[i].fill = svg.overlays[i].fill
                 /\ doc.overlays[i].filter = svg.overlays[i].filter
           /\ \A i \in DOMAIN controller.shapes :
                 /\ controller.shapes[i].entryStyle
                      = entrances[request.seed][i].entryStyle
                 /\ controller.shapes[i].dur = entrances[request.seed][i].dur

\* C12: a controller over a scene of several shapes, played twice
PlayedTwice ==
  mounted /\ observed.plays = 2 /\ Len(controller.shapes) > 2

\* C13: the shapes of a controller are the children the composer appended
\* after the background rectangle, in order, each with one of the seven
\* entry styles, and elementCount is their number, after any calls of play,
\* stop and reveal
AnimatesPrimitives ==
  mounted
    => LET children == container[1].children
       IN  /\ children # <<>> /\ children[1].kind = "Shapes.rect"
           /\ controller.elementCount = Len(children) - 1
           /\ DOMAIN controller.shapes = 1..controller.elementCount
           /\ DOMAIN controller.styles = 1..controller.elementCount
           /\ \A i \in DOMAIN controller.shapes :
                 /\ controller.shapes[i].el = children[i + 1]
                 /\ \E j \in 1..7 : controller.shapes[i].entryStyle = entryStyles[j]

\* C13: a controller over several shapes revealed after it was played and
\* stopped
CountAfterCalls ==
  /\ mounted
  /\ controller.elementCount > 2
  /\ observed.called = "reveal"
  /\ observed.interrupted = FALSE
  /\ observed.plays > 1

(***************************************************************************)
(* The library functions called on their own: two generators created from  *)
(* the same seed and drawn from independently, and the utilities drawing   *)
(* from the first.                                                         *)
(***************************************************************************)
MaxDraws == 4

RngSeeds == {-2147483647, -1, 0, 36787}

\* createRng(seed): let s = seed | 0
newRng(seed) ==
  [seed |-> seed, s |-> ToInt32(seed), draws |-> 0, u |-> <<0, 0>>]

\* rng(): s = s + 0x6D2B79F5 | 0, and the word returned over 2^32
draw(g) ==
  [seed |-> g.seed, s |-> Add32(g.s, RngStep), draws |-> g.draws + 1,
   u |-> rngOut(Add32(g.s, RngStep))]

InitRng ==
  /\ \E seed \in RngSeeds : gen = newRng(seed) /\ twin = newRng(seed)
  /\ lib = NoCall
  /\ noise = NoNoise
  /\ spatialGrid = EmptyGrid
  /\ hero = NoHero
  /\ EngineIdle
  /\ ComposerIdle
  /\ ControllerIdle

\* rng() on the first generator
Draw ==
  /\ gen.draws < MaxDraws
  /\ gen' = draw(gen)
  /\ UNCHANGED <<twin, lib, noise, spatialGrid, container, last, seen, request, scene,
                 controller, timers, completed, observed, hero>>

\* rng() on the second generator
TwinDraw ==
  /\ twin.draws < MaxDraws
  /\ twin' = draw(twin)
  /\ UNCHANGED <<gen, lib, noise, spatialGrid, container, last, seen, request, scene,
                 controller, timers, completed, observed, hero>>

\* the ends min, max the utilities are called with
RangeEnds == {<<0, 1>>, <<3, 5>>, <<-2, 1>>, <<4, 4>>}

PickArrays == {<<"a">>, <<"a", "b", "c">>}

\* range(rng, min, max), the result in 2^-20
Range ==
  /\ gen.draws < MaxDraws
  /\ \E e \in RangeEnds :
       \E g \in {draw(gen)} :
         /\ gen' = g
         /\ lib' = [api |-> "range", min |-> e[1], max |-> e[2],
                    result |-> range(g.u, e[1] * Q20, e[2] * Q20),
                    from |-> gen.draws, to |-> g.draws]
  /\ UNCHANGED <<twin, noise, spatialGrid, container, last, seen, request, scene,
                 controller, timers, completed, observed, hero>>

\* rangeInt(rng, min, max)
RangeInt ==
  /\ gen.draws < MaxDraws
  /\ \E e \in RangeEnds :
       \E g \in {draw(gen)} :
         /\ gen' = g
         /\ lib' = [api |-> "rangeInt", min |-> e[1], max |-> e[2],
                    result |-> rangeInt(g.u, e[1], e[2]),
                    from |-> gen.draws, to |-> g.draws]
  /\ UNCHANGED <<twin, noise, spatialGrid, container, last, seen, request, scene,
                 controller, timers, completed, observed, hero>>

\* pick(rng, arr)
Pick ==
  /\ gen.draws < MaxDraws
  /\ \E arr \in PickArrays :
       \E g \in {draw(gen)} :
         /\ gen' = g
         /\ lib' = [api |-> "pick", arr |-> arr,
                    result |-> arr[pick(g.u, Len(arr))],
                    from |-> gen.draws, to |-> g.draws]
  /\ UNCHANGED <<twin, noise, spatialGrid, container, last, seen, request, scene,
                 controller, timers, completed, observed, hero>>

\* the weights weightedPick is called with over three colours: whole
\* numbers, a list of zeros and lists with a negative weight among them
WeightLists == {<<1, 2, 1>>, <<3, 0, 1>>, <<0, 0, 0>>, <<2, -1, 1>>, <<-1, -1, -1>>}

\* weightedPick(rng, ['a', 'b', 'c'], weights)
WeightedPick ==
  /\ gen.draws < MaxDraws
  /\ \E weights \in WeightLists :
       \E g \in {draw(gen)} :
         /\ gen' = g
         /\ lib' = [api |-> "weightedPick", colors |-> <<"a", "b", "c">>,
                    weights |-> weights, u |-> g.u,
                    result |-> weightedPickOf(g.u, <<"a", "b", "c">>, weights),
                    from |-> gen.draws, to |-> g.draws]
  /\ UNCHANGED <<twin, noise, spatialGrid, container, last, seen, request, scene,
                 controller, timers, completed, observed, hero>>

RECURSIVE noiseShuffle(_, _, _)
\* the steps i = hi down to lo of the shuffle loop of createNoise2D, st
\* being the generator g and the array p before them: the upper half of
\* the steps, then the lower half.  A step draws j and swaps p[i] and p[j]
\* (positions count from 1 here).
noiseShuffle(st, hi, lo) ==
  IF hi = lo
    THEN CHOOSE after \in
           {[g |-> d,
             p |-> [st.p EXCEPT ![hi + 1] = st.p[pick(d.u, hi + 1)],
                                ![pick(d.u, hi + 1)] = st.p[hi + 1]]] :
            d \in {draw(st.g)}} : TRUE
    ELSE CHOOSE after \in
           {noiseShuffle(m, (hi + lo) \div 2, lo) :
            m \in {noiseShuffle(st, hi, (hi + lo) \div 2 + 1)}} : TRUE

\* createNoise2D filling only the first 256 entries of perm: a Uint8Array
\* starts as zeros
createNoise2DHalf(g) ==
  LET r == noiseShuffle([g |-> g, p |-> [i \in 1..256 |-> i - 1]], 255, 1)
  IN  [g |-> r.g, perm |-> [i \in 1..512 |-> IF i <= 256 THEN r.p[i] ELSE 0]]

\* createNoise2D(rng): the generator afterwards and the lookup table,
\* perm[i] = p[i & 255]
createNoise2D(g) ==
  LET r == noiseShuffle([g |-> g, p |-> [i \in 1..256 |-> i - 1]], 255, 1)
  IN  [g |-> r.g, perm |-> [i \in 1..512 |-> r.p[((i - 1) % 256) + 1]]]

RECURSIVE drawn(_, _)
\* createRng(seed) after k draws
drawn(seed, k) == IF k = 0 THEN newRng(seed) ELSE draw(drawn(seed, k - 1))

\* createNoise2D on each generator it is called on
noiseFields ==
  [g \in {drawn(seed, k) : seed \in RngSeeds, k \in 0..MaxDraws} |->
     createNoise2D(g)] @@ <<>>

\* the lattice cells i, j a sample falls in
Lattice == {0, 7, 255}

\* noise2D(x, y): the three gradients read from the table for the cell
\* i, j (both & 255) and the simplex i1, j1 = 1 - i1 of the point
noise2D(perm, i, j, i1) ==
  <<perm[i + perm[j + 1] + 1] % 12,
    perm[i + i1 + perm[j + (1 - i1) + 1] + 1] % 12,
    perm[i + 1 + perm[j + 1 + 1] + 1] % 12>>

\* createNoise2D(rng) on the first generator
BuildNoise ==
  /\ noise = NoNoise
  /\ \E built \in {noiseFields[gen]} :
       /\ gen' = built.g
       /\ noise' = [perm |-> built.perm, from |-> gen.draws]
  /\ lib' = [api |-> "createNoise2D"]
  /\ UNCHANGED <<twin, spatialGrid, container, last, seen, request, scene,
                 controller, timers, completed, observed, hero>>

\* noise2D(x, y) on the field built
Sample ==
  /\ noise # NoNoise
  /\ \E i \in Lattice, j \in Lattice, i1 \in {0, 1} :
       lib' = [api |-> "noise2D", i |-> i, j |-> j,
               result |-> noise2D(noise.perm, i, j, i1)]
  /\ UNCHANGED <<gen, twin, noise, spatialGrid, container, last, seen, request, scene,
                 controller, timers, completed, observed, hero>>

\* the arrays shuffled: empty, of one element, of distinct elements and with
\* an element twice
ShuffleArrays == {<<>>, <<"a">>, <<"a", "b">>, <<"a", "b", "c">>, <<"a", "a", "b">>}

\* shuffled(rng, arr)
Shuffled ==
  /\ \E arr \in ShuffleArrays :
       /\ gen.draws + Len(arr) <= MaxDraws + 1
       /\ \E r \in {shuffled(createRng(gen.seed), gen.draws, arr)} :
            /\ gen' = drawn(gen.seed, r.k)
            /\ lib' = [api |-> "shuffled", arr |-> arr, result |-> r.a,
                       from |-> gen.draws, to |-> r.k]
  /\ UNCHANGED <<twin, noise, spatialGrid, container, last, seen, request, scene,
                 controller, timers, completed, observed, hero>>

NextRng ==
  Draw \/ TwinDraw \/ Range \/ RangeInt \/ Pick \/ WeightedPick
    \/ BuildNoise \/ Sample \/ Shuffled

SpecRng == InitRng /\ [][NextRng]_vars

(***************************************************************************)
(* A spatial grid of cell size 80 called on its own.  lib keeps the bounds *)
(* inserted so far, in order, with the last call.                          *)
(***************************************************************************)
MaxInserts == 3

\* the bounds inserted and queried: { x, y, w, h } and { cx, cy, r }
GridBounds ==
  {[x |-> 0, y |-> 0, w |-> 10 * Q20, h |-> 10 * Q20],
   [x |-> 50 * Q20, y |-> 50 * Q20, w |-> 10 * Q20, h |-> 10 * Q20],
   [x |-> 70 * Q20, y |-> 70 * Q20, w |-> 20 * Q20, h |-> 20 * Q20],
   [x |-> -30 * Q20, y |-> 200 * Q20, w |-> 60 * Q20, h |-> 20 * Q20],
   [cx |-> 100 * Q20, cy |-> 100 * Q20, r |-> 15 * Q20],
   [cx |-> 530 * Q20, cy |-> 40 * Q20, r |-> 50 * Q20]}

InitGrid ==
  /\ spatialGrid = EmptyGrid
  /\ lib = [api |-> "createSpatialGrid", inserted |-> <<>>]
  /\ gen = NoRng
  /\ twin = NoRng
  /\ noise = NoNoise
  /\ hero = NoHero
  /\ EngineIdle
  /\ ComposerIdle
  /\ ControllerIdle

\* grid.insert(bounds)
Insert ==
  /\ spatialGrid.n < MaxInserts
  /\ \E bounds \in GridBounds :
       /\ spatialGrid' = insert(spatialGrid, bounds, 80)
       /\ lib' = [api |-> "insert", inserted |-> Append(lib.inserted, bounds)]
  /\ UNCHANGED <<gen, twin, noise, container, last, seen, request, scene,
                 controller, timers, completed, observed, hero>>

\* grid.query(bounds)
Query ==
  /\ \E bounds \in GridBounds :
       lib' = [api |-> "query", inserted |-> lib.inserted, bounds |-> bounds,
               result |-> query(spatialGrid, bounds, 80), before |-> spatialGrid]
  /\ UNCHANGED <<spatialGrid, gen, twin, noise, container, last, seen, request, scene,
                 controller, timers, completed, observed, hero>>

\* grid.density(x, y, radius)
Density ==
  /\ \E disc \in {b \in GridBounds : "r" \in DOMAIN b} :
       lib' = [api |-> "density", inserted |-> lib.inserted, bounds |-> disc,
               result |-> density(spatialGrid, disc.cx, disc.cy, disc.r, 80),
               before |-> spatialGrid]
  /\ UNCHANGED <<spatialGrid, gen, twin, noise, container, last, seen, request, scene,
                 controller, timers, completed, observed, hero>>

NextGrid == Insert \/ Query \/ Density

SpecGrid == InitGrid /\ [][NextGrid]_vars

(***************************************************************************)
(* The division lines of the MONDRIAN grid for the words a generator can   *)
(* draw, the smallest and the largest among them.                          *)
(***************************************************************************)
DrawWords == {<<0, 0>>, <<32768, 0>>, <<65535, 65535>>}

\* the loops that fill vLines (3 to 5 lines) and hLines (2 to 4 lines)
Divide ==
  /\ \E axis \in {"vLines", "hLines"} :
       \E count \in (IF axis = "vLines" THEN 3..5 ELSE 2..4) :
         \E us \in [1..count -> DrawWords] :
           lib' = [api |-> "divisions", axis |-> axis, count |-> count, us |-> us,
                   lines |-> divisionLines(<<0>>, 0, count, us)]
  /\ UNCHANGED <<gen, twin, noise, spatialGrid, container, last, seen, request,
                 scene, controller, timers, completed, observed, hero>>

NextLines == Divide

SpecLines == Init /\ [][NextLines]_vars

(***************************************************************************)
(* The cursor-responsive hero of the page (initCursorHero): the artwork    *)
(* last rendered into it, the pending animation-frame callbacks, the       *)
(* intervals running and the flash callbacks set by clicks and by rotation *)
(* ticks, in the order they were set.  The pointer enters before it moves, *)
(* clicks or leaves.                                                       *)
(***************************************************************************)
MaxClicks == 2

\* the values Math.floor(Math.random() * 99999) takes
HeroSeeds == {7, 31999}

\* the pointer over the artwork, in hundredths of its width and height
HeroPoints == {<<0, 0>>, <<100, 100>>}

\* renderWithParams(seed, density): ZEngine.render of the archetype and the
\* palette at currentArchetypeIdx
renderWithParams(st, seed, d) ==
  [st EXCEPT !.shown = [currentArchetypeIdx |-> st.currentArchetypeIdx,
                        seed |-> seed, density |-> d]]

\* startRotation(): the interval held is cleared and a new one is set
startRotation(st) ==
  LET kept == st.intervals \ {st.rotationInterval}
      id == CHOOSE i \in 1..(Cardinality(kept) + 1) : i \notin kept
  IN  [st EXCEPT !.intervals = kept \cup {id}, !.rotationInterval = id]

InitHero ==
  /\ hero = startRotation(
              renderWithParams(
                [step |-> "init", baseSeed |-> 42718, currentArchetypeIdx |-> 0,
                 rafId |-> 0, frames |-> <<>>, isHovering |-> FALSE,
                 rotationInterval |-> 0, intervals |-> {}, timeouts |-> <<>>,
                 opacity |-> "", shown |-> <<>>],
                42718, 50))
  /\ gen = NoRng
  /\ twin = NoRng
  /\ lib = NoCall
  /\ noise = NoNoise
  /\ spatialGrid = EmptyGrid
  /\ EngineIdle
  /\ ComposerIdle
  /\ ControllerIdle

heroIdle == <<container, last, seen, request, scene, controller, timers, completed,
              observed, gen, twin, lib, noise, spatialGrid>>

\* mousemove: a frame callback is requested unless one is pending
Mousemove ==
  /\ hero.isHovering
  /\ \E pt \in HeroPoints :
       hero' = IF hero.rafId # 0 THEN [hero EXCEPT !.step = "mousemove"]
               ELSE [hero EXCEPT !.step = "mousemove", !.rafId = 1,
                                 !.frames = Append(@, [x |-> pt[1], y |-> pt[2]])]
  /\ UNCHANGED heroIdle

\* the callback of requestAnimationFrame: the seed follows the pointer's x
\* by -50 to 50 around baseSeed, the density its y from 0.15 to 0.85
Frame ==
  /\ hero.frames # <<>>
  /\ hero' = [renderWithParams(hero, hero.baseSeed + (Head(hero.frames).x - 50),
                               15 + (Head(hero.frames).y * 70) \div 100)
                EXCEPT !.rafId = 0, !.frames = Tail(@), !.step = "frame"]
  /\ UNCHANGED heroIdle

Mouseenter ==
  /\ ~hero.isHovering
  /\ hero' = [hero EXCEPT !.isHovering = TRUE,
                          !.intervals = @ \ {hero.rotationInterval},
                          !.rotationInterval = 0,
                          !.step = "mouseenter"]
  /\ UNCHANGED heroIdle

Mouseleave ==
  /\ hero.isHovering
  /\ hero' = [startRotation(renderWithParams([hero EXCEPT !.isHovering = FALSE],
                                             hero.baseSeed, 50))
                EXCEPT !.step = "mouseleave"]
  /\ UNCHANGED heroIdle

\* click: the artwork fades and the flash callback is set, 300 ms ahead
Click ==
  /\ hero.isHovering
  /\ Len(SelectSeq(hero.timeouts, LAMBDA c : c = "click")) < MaxClicks
  /\ hero' = [hero EXCEPT !.opacity = "0", !.timeouts = Append(@, "click"),
                          !.step = "click"]
  /\ UNCHANGED heroIdle

\* the callback a click set: the oldest of them
ClickTimeout ==
  /\ \E i \in DOMAIN hero.timeouts :
       /\ hero.timeouts[i] = "click"
       /\ \A j \in 1..(i - 1) : hero.timeouts[j] # "click"
       /\ \E random \in HeroSeeds :
            hero' = [renderWithParams(
                       [hero EXCEPT !.currentArchetypeIdx = (@ + 1) % 7,
                                    !.baseSeed = random],
                       random, 50)
                     EXCEPT !.opacity = "1", !.step = "click timeout",
                            !.timeouts = [k \in 1..(Len(@) - 1) |->
                                            IF k < i THEN @[k] ELSE @[k + 1]]]
  /\ UNCHANGED heroIdle

\* the callback of an interval running, every 6 s: when the callback of the
\* tick before has long run
Tick ==
  /\ hero.intervals # {}
  /\ \A j \in DOMAIN hero.timeouts : hero.timeouts[j] # "rotation"
  /\ hero' = IF hero.isHovering THEN [hero EXCEPT !.step = "tick"]
             ELSE [hero EXCEPT !.opacity = "0", !.timeouts = Append(@, "rotation"),
                               !.step = "tick"]
  /\ UNCHANGED heroIdle

\* the callback a tick set, 350 ms ahead: it runs after the callbacks that
\* clicks set before it
RotationTimeout ==
  /\ \E i \in DOMAIN hero.timeouts :
       /\ hero.timeouts[i] = "rotation"
       /\ \A j \in 1..(i - 1) : hero.timeouts[j] # "click"
       /\ \E random \in HeroSeeds :
            hero' = [renderWithParams(
                       [hero EXCEPT !.currentArchetypeIdx = (@ + 1) % 7,
                                    !.baseSeed = random],
                       random, 50)
                     EXCEPT !.opacity = "1", !.step = "rotation timeout",
                            !.timeouts = [k \in 1..(Len(@) - 1) |->
                                            IF k < i THEN @[k] ELSE @[k + 1]]]
  /\ UNCHANGED heroIdle

NextHero ==
  Mousemove \/ Frame \/ Mouseenter \/ Mouseleave \/ Click \/ ClickTimeout
    \/ Tick \/ RotationTimeout

SpecHero == InitHero /\ [][NextHero]_vars

\* C15: the state of a generator is a 32-bit word, the seed plus the number
\* of draws times 0x6D2B79F5 modulo 2^32; every draw is a word w with
\* 0 <= w < 2^32 (the value returned is w / 2^32), the one the composers
\* read at that position; and two generators created from the same seed
\* hold the same state and the same draw whenever they are at the same
\* position
RngContract ==
  /\ gen.s[1] \in 0..(W16 - 1) /\ gen.s[2] \in 0..(W16 - 1)
  /\ gen.s = rngState(ToInt32(gen.seed), gen.draws)
  /\ gen.draws > 0
       => /\ gen.u[1] \in 0..(W16 - 1) /\ gen.u[2] \in 0..(W16 - 1)
          /\ gen.u = U(createRng(gen.seed), gen.draws)
  /\ twin.draws > 0
       => twin.u[1] \in 0..(W16 - 1) /\ twin.u[2] \in 0..(W16 - 1)
  /\ gen.draws = twin.draws => gen.s = twin.s /\ gen.u = twin.u

\* C15: two generators created from a negative seed, each drawn from three
\* times, the third draw being at least one half
DrawnFromNegativeSeed ==
  /\ gen.seed < 0
  /\ gen.draws = 3
  /\ twin.draws = 3
  /\ gen.u[1] >= W16 \div 2

\* C16: rangeInt returns an integer from min to max, min for the smallest
\* draw and max for the largest; range returns a value from min up to max;
\* range and rangeInt called with min = max return min; pick returns an
\* element of its array; and the generator is one draw further after each
UtilityContract ==
  /\ lib.api = "rangeInt"
       => /\ lib.result \in lib.min..lib.max
          /\ rangeInt(<<0, 0>>, lib.min, lib.max) = lib.min
          /\ rangeInt(<<W16 - 1, W16 - 1>>, lib.min, lib.max) = lib.max
          /\ lib.min = lib.max => lib.result = lib.min
  /\ lib.api = "range"
       => /\ lib.min * Q20 <= lib.result /\ lib.result <= lib.max * Q20
          /\ lib.min < lib.max => lib.result < lib.max * Q20
          /\ lib.min = lib.max => lib.result = lib.min * Q20
  /\ lib.api = "pick" => \E i \in DOMAIN lib.arr : lib.result = lib.arr[i]
  /\ lib.api \in {"range", "rangeInt", "pick"} => lib.to = lib.from + 1

\* C16: a rangeInt call over several integers that returned its upper end
UpperEndReturned ==
  /\ lib.api = "rangeInt"
  /\ lib.min < lib.max
  /\ lib.result = lib.max

\* C17: weightedPick consumes one draw and returns a member of the colours:
\* the first colour whose cumulative weight reaches the draw scaled by the
\* total when every weight is >= 0 and the total is > 0, and the colour a
\* uniform pick makes of the same draw otherwise
WeightedPickFallsBack ==
  lib.api = "weightedPick"
    => LET n == Len(lib.colors)
           valid == /\ \A i \in 1..n : lib.weights[i] >= 0
                    /\ sumTo(lib.weights, n) > 0
           total == sumTo(lib.weights, n)
           \* u * total, in units of 2^16 and the remainder
           q == lib.u[1] * total + (lib.u[2] * total) \div W16
           r == (lib.u[2] * total) % W16
           reached == {i \in 1..n :
                         \/ q < sumTo(lib.weights, i) * W16
                         \/ q = sumTo(lib.weights, i) * W16 /\ r = 0}
       IN  /\ lib.to = lib.from + 1
           /\ \E i \in 1..n : lib.result = lib.colors[i]
           /\ valid /\ reached # {}
                => lib.result
                     = lib.colors[CHOOSE i \in reached : \A j \in reached : i <= j]
           /\ ~valid => lib.result = lib.colors[pick(lib.u, n)]

\* C19: building a noise field consumes 256 draws and yields a 512-entry
\* table, its first 256 entries a permutation of 0..255 and entry i + 256
\* equal to entry i
NoiseConsumes256 ==
  noise # NoNoise
    => /\ gen.draws = noise.from + 256
       /\ Len(noise.perm) = 512
       /\ {noise.perm[i] : i \in 1..256} = 0..255
       /\ \A i \in 1..256 : noise.perm[i + 256] = noise.perm[i]

\* C19: building a noise field consumes 255 draws, leaving the generator
\* where the composers take it to be, and yields a 512-entry table, its
\* first 256 entries a permutation of 0..255 and entry i + 256 equal to
\* entry i; after any samples the generator is where the build left it and
\* the table is the one a build from the same draws gives
NoiseConsumes255 ==
  noise # NoNoise
    => /\ gen.draws = noise.from + 255
       /\ gen.draws = noise.from + NoiseDraws
       /\ gen.s = rngSkip(createRng(gen.seed), gen.draws)
       /\ gen.u = U(createRng(gen.seed), gen.draws)
       /\ Len(noise.perm) = 512
       /\ {noise.perm[i] : i \in 1..256} = 0..255
       /\ \A i \in 1..256 : noise.perm[i + 256] = noise.perm[i]
       /\ noise.perm = noiseFields[drawn(gen.seed, noise.from)].perm
       /\ lib.api = "noise2D" => \A i \in 1..3 : lib.result[i] \in 0..11

\* C19: a field built after some draws and sampled in the last row of the
\* lattice, where entry 256 of the table is read
SampledLastRow ==
  /\ noise # NoNoise
  /\ noise.from > 0
  /\ lib.api = "noise2D"
  /\ lib.j = 255

\* the bounding boxes of two bounds have a point in common
BoxesMeet(a, b) ==
  /\ Corners(a)[1] <= Corners(b)[3] /\ Corners(b)[1] <= Corners(a)[3]
  /\ Corners(a)[2] <= Corners(b)[4] /\ Corners(b)[2] <= Corners(a)[4]

\* two bounds touch a common cell of the grid: their column ranges meet
\* and their row ranges meet
CellsMeet(a, b) ==
  /\ CellRange(a, 80).c1 <= CellRange(b, 80).c2
  /\ CellRange(b, 80).c1 <= CellRange(a, 80).c2
  /\ CellRange(a, 80).r1 <= CellRange(b, 80).r2
  /\ CellRange(b, 80).r1 <= CellRange(a, 80).r2

\* C18: query returns exactly the inserted bounds that overlap the query
\* region, density the number of inserted bounds that overlap the disc, and
\* neither changes the grid (overlap read as generously as it can be: the
\* bounding boxes have a point in common)
QueryExact ==
  lib.api \in {"query", "density"}
    => LET overlapping == {k \in 1..Len(lib.inserted) :
                             BoxesMeet(lib.inserted[k], lib.bounds)}
       IN  /\ spatialGrid = lib.before
           /\ lib.api = "query" => lib.result = overlapping
           /\ lib.api = "density" => lib.result = Cardinality(overlapping)

\* C18: query returns exactly the inserted bounds that touch a grid cell
\* the query's bounding box touches, every bounds whose bounding box meets
\* the query's among them; density is the number of bounds so returned for
\* the disc; and neither changes the grid
QueryByCell ==
  lib.api \in {"query", "density"}
    => LET sharing == {k \in 1..Len(lib.inserted) :
                         CellsMeet(lib.inserted[k], lib.bounds)}
           overlapping == {k \in 1..Len(lib.inserted) :
                             BoxesMeet(lib.inserted[k], lib.bounds)}
       IN  /\ spatialGrid = lib.before
           /\ spatialGrid.n = Len(lib.inserted)
           /\ overlapping \subseteq sharing
           /\ lib.api = "query" => lib.result = sharing
           /\ lib.api = "density" => lib.result = Cardinality(sharing)

\* C18: a query that returned a bounds whose bounding box is apart from
\* the query's, after several inserts
ReturnedDistantBounds ==
  /\ lib.api = "query"
  /\ Len(lib.inserted) > 1
  /\ \E k \in lib.result : ~BoxesMeet(lib.inserted[k], lib.bounds)

\* C20: a COLOR_STUDY scene of nested squares or nested circles holds,
\* after the background, rings of strictly decreasing size from outside in,
\* and ends with one accent shape under the deep shadow, smaller than the
\* innermost ring
HomageNested ==
  (/\ request.archetype = "COLOR_STUDY"
   /\ scene # <<>>
   /\ rangeInt(U(createRng(request.seed), NoiseDraws + 1), 0, 2) \in {0, 1})
    => LET s == createRng(request.seed)
           p == PALETTES[request.palette]
           ringCount == rangeInt(U(s, NoiseDraws + 2), 3, 5)
           sizes == ringSizes(s, NoiseDraws + 2 + Len(p.colors), 0, ringCount,
                              rangeInt(U(s, NoiseDraws + 1), 0, 2) = 0, <<>>)
       IN  /\ \A i \in 1..(Len(sizes) - 1) : sizes[i] > sizes[i + 1]
           /\ Len(scene) = 1 + Len(sizes) + 1
           /\ scene[Len(scene)].filter = "deep-shadow"
           /\ \A i \in 2..(Len(scene) - 1) : scene[i].filter = "shadow"

\* C21: a composer's strategy index is drawn before anything that depends on
\* density or palette: it lies in 0 .. k - 1 for the composer's k strategies
\* and is the same for every density and palette of the same archetype and
\* seed.
StrategyBySeed ==
  scene # <<>> =>
    \A k \in {strategyOf(COMPOSERS[request.archetype].composer,
                         PALETTES[request.palette], createRng(request.seed),
                         request.density)} :
      /\ k \in 0..(IF request.archetype = "FREE_FORM" THEN 4
                   ELSE IF request.archetype = "REPETITION" THEN 3 ELSE 2)
      /\ \A r \in ComposeRequests :
           r.archetype = request.archetype /\ r.seed = request.seed
             => strategyOf(COMPOSERS[r.archetype].composer, PALETTES[r.palette],
                           createRng(r.seed), r.density) = k

\* C21 witness: a FREE_FORM composition above the texture and connector
\* thresholds that took the last of its five strategies
StrategyAtHighDensity ==
  /\ scene # <<>>
  /\ request.archetype = "FREE_FORM"
  /\ request.density = 90
  /\ strategyOf("composeFreeForm", PALETTES[request.palette],
                createRng(request.seed), request.density) = 4

\* the bounding box of a bounds has a point in the cell of column c, row r
\* (of side 80; the cell holds its left and top edges)
Touches(bounds, c, r) ==
  /\ c * 80 * Q20 <= Corners(bounds)[3] /\ Corners(bounds)[1] < (c + 1) * 80 * Q20
  /\ r * 80 * Q20 <= Corners(bounds)[4] /\ Corners(bounds)[2] < (r + 1) * 80 * Q20

\* C22: every inserted bounds is recorded in every cell its bounding box
\* touches, cells at negative coordinates and beyond the canvas included; a
\* query returns each bounds recorded in a cell it covers once however many
\* of those cells it covers; and every insertion is an entry of its own, so
\* that equal-valued bounds inserted twice count twice in density.
RecordedInEveryCell ==
  /\ \A i \in 1..Len(lib.inserted) : \A c \in -2..8 : \A r \in -2..8 :
       Touches(lib.inserted[i], c, r) <=> <<c, r, i>> \in spatialGrid.cells
  /\ lib.api \in {"query", "density"}
       => LET covered == {i \in 1..Len(lib.inserted) :
                            \E c \in -2..8 : \E r \in -2..8 :
                              /\ Touches(lib.inserted[i], c, r)
                              /\ Touches(lib.bounds, c, r)}
          IN  /\ lib.api = "query" => lib.result = covered
              /\ lib.api = "density" => lib.result = Cardinality(covered)

\* C22 witness: a disc reaching above the canvas and past its right edge,
\* inserted twice, and then the density of that disc, whose query covers
\* all six cells the two entries are recorded in
CountedTwice ==
  /\ lib.api = "density"
  /\ Len(lib.inserted) = 2
  /\ lib.inserted[1] = lib.inserted[2]
  /\ lib.inserted[1] = lib.bounds
  /\ Touches(lib.bounds, 7, -1)
  /\ Touches(lib.bounds, 6, 1)
  /\ lib.result = 2

\* the draws consumed before the strategy body of composeFreeForm starts:
\* the noise field, the strategy and the feature draws that density admits
freeFormStart(d) ==
  NoiseDraws + 1 + (IF d > 35 THEN 1 ELSE 0) + (IF d > 30 THEN 1 ELSE 0) + 1

\* the islands of the archipelago of the request (none for another strategy)
archipelago ==
  IF /\ request.archetype = "FREE_FORM"
     /\ scene # <<>>
     /\ strategyOf("composeFreeForm", PALETTES[request.palette],
                   createRng(request.seed), request.density) = 3
    THEN freeFormIslands(PALETTES[request.palette], createRng(request.seed),
                         freeFormStart(request.density) + 1, 0,
                         rangeInt(U(createRng(request.seed),
                                    freeFormStart(request.density) + 1), 4, 7),
                         EmptyGrid, <<>>, <<>>).islands
    ELSE <<>>

\* candidate a (0-based) of the search that starts after k draws on grid g
candidate(seed, k, g, a) ==
  LET tx == range(U(createRng(seed), k + 2 * a + 1), Dec(28000), Dec(476000))
      ty == range(U(createRng(seed), k + 2 * a + 2), Dec(28000), Dec(476000))
  IN  [x |-> tx, y |-> ty, dens |-> density(g, tx, ty, 80 * Q20, 80)]

\* C23: every island of the archipelago is placed at the earliest of its 8
\* candidates whose density within radius 80 is minimal among the 8; the
\* search draws for 8 candidates and no more; and the grid a search scores
\* against holds every island placed before it.
SparsestOfEight ==
  \A isl \in {archipelago} :
    \A i \in 1..Len(isl) :
      /\ \E a \in 0..7 :
           /\ isl[i].best = candidate(request.seed, isl[i].k, isl[i].before, a)
           /\ \A b \in 0..7 :
                /\ candidate(request.seed, isl[i].k, isl[i].before, b).dens
                     >= isl[i].best.dens
                /\ b < a => candidate(request.seed, isl[i].k, isl[i].before, b).dens
                              > isl[i].best.dens
      /\ isl[i].before.n = i - 1
      /\ i > 1 => /\ isl[i].before = insert(isl[i - 1].before, isl[i - 1].bounds, 80)
                  /\ isl[i].k - isl[i - 1].k
                       \in {2 * 8 + 1 + spatialDraws(PALETTES[request.palette].colors) + n :
                              n \in {3, 5}}

\* C23 witness: an archipelago with an island placed where an earlier
\* island is within reach, although the search had 8 candidates
CrowdedIsland ==
  \E i \in 1..Len(archipelago) : archipelago[i].best.dens > 0

\* a with the elements at the 1-based indices i and j exchanged
Swapped(a, i, j) == [a EXCEPT ![i] = a[j], ![j] = a[i]]

\* C24: shuffled returns an array of the length and with the elements of
\* arr, each as often as in arr: the one Fisher-Yates gives from the last
\* index down, the draw of step i choosing among the indices 0..i; it
\* consumes length - 1 draws, none for length 0 or 1; and arr is as before.
ShuffledPermutes ==
  lib.api = "shuffled" =>
    LET n == Len(lib.arr)
        u(i) == U(createRng(gen.seed), lib.from + i)
    IN  /\ Len(lib.result) = n
        /\ \A x \in {"a", "b", "c"} :
             Cardinality({i \in 1..n : lib.result[i] = x})
               = Cardinality({i \in 1..n : lib.arr[i] = x})
        /\ lib.to - lib.from = (IF n <= 1 THEN 0 ELSE n - 1)
        /\ gen.draws >= lib.to
        /\ lib.arr \in ShuffleArrays
        /\ n <= 1 => lib.result = lib.arr
        /\ n = 2 => lib.result = Swapped(lib.arr, 2, pick(u(1), 2))
        /\ n = 3 => lib.result = Swapped(Swapped(lib.arr, 3, pick(u(1), 3)),
                                          2, pick(u(2), 2))

\* C24 witness: three distinct elements shuffled into another order by two
\* draws, after an earlier draw
ShuffledThree ==
  /\ lib.api = "shuffled"
  /\ lib.arr = <<"a", "b", "c">>
  /\ lib.result # lib.arr
  /\ lib.result[3] # "c"
  /\ lib.from > 0
  /\ lib.to = lib.from + 2

\* C25: the division lines of the ruled grid increase strictly from 0 to
\* 560 for every draw sequence and line count, every interior line being
\* strictly between 0 and 560, so that every cell has positive width and
\* height.
LinesIncrease ==
  lib.api = "divisions" =>
    /\ Len(lib.lines) = lib.count + 2
    /\ lib.lines[1] = 0
    /\ lib.lines[Len(lib.lines)] = CANVAS * Q20
    /\ \A i \in 1..(Len(lib.lines) - 1) : lib.lines[i + 1] - lib.lines[i] > 0
    /\ \A i \in 2..(Len(lib.lines) - 1) :
         lib.lines[i] > 0 /\ lib.lines[i] < CANVAS * Q20

\* C25 witness: five vertical lines from the largest draws, the gaps after
\* the first held at the least the loop allows, so that the last line
\* passes the place the reserve would keep it under
LinesPastReserve ==
  /\ lib.api = "divisions"
  /\ lib.axis = "vLines"
  /\ lib.count = 5
  /\ \A i \in 1..5 : lib.us[i] = <<65535, 65535>>
  /\ lib.lines[6] > (CANVAS - 56) * Q20

\* the finishing steps pending
pendingFinals == {i \in DOMAIN timers : timers[i].kind = "final"}

\* C26: isPlaying() is false before the first play(), true from a play()
\* until the finishing step of that run executes or stop() or reveal() is
\* called, and false afterwards; onComplete is invoked at most once per
\* play(), only by the finishing step of the most recent play(), and not
\* after stop() or reveal() until play() is called again.
PlayingUntilFinished ==
  /\ [](mounted =>
         /\ (observed.plays = 0) => ~controller.playing
         /\ (observed.called \in {"stop", "reveal"})
              => (~controller.playing /\ pendingFinals = {})
         /\ controller.playing
              <=> (observed.called = "play" /\ pendingFinals # {})
         /\ \A i \in pendingFinals : timers[i].run = observed.plays
         /\ completed + Cardinality(pendingFinals) <= observed.plays)
  /\ [][/\ (controller.playing /\ ~controller'.playing)
             => (\/ observed'.called \in {"stop", "reveal"}
                 \/ (pendingFinals # {} /\ pendingFinals' = {}
                       /\ observed' = observed))
        /\ (~controller.playing /\ controller'.playing)
             => (observed'.called = "play" /\ observed'.plays = observed.plays + 1)
        /\ (completed' # completed)
             => (/\ completed' = completed + 1
                 /\ controller.playing /\ ~controller'.playing
                 /\ observed' = observed /\ observed.called = "play"
                 /\ pendingFinals' = {}
                 /\ \E i \in pendingFinals : timers[i].run = observed.plays)]_vars

\* C26 witness: the second play() has run to its finishing step, the first
\* never, and the controller is idle again
SecondRunFinished ==
  /\ mounted
  /\ observed.plays = 2
  /\ observed.called = "play"
  /\ completed = 1
  /\ ~controller.playing
  /\ pendingFinals = {}

\* the state reveal() leaves: every element at the opacity of its attribute
\* and without transform, the overlays at 1, 1 and 0.07, nothing playing
revealedState ==
  /\ mounted
  /\ controller.styles = [i \in DOMAIN controller.shapes |->
                            [opacity |-> controller.shapes[i].opacity,
                             transform |-> ""]]
  /\ controller.overlays = <<"1", "1", "0.07">>
  /\ ~controller.playing

\* C27: play() schedules one reveal step per element and one finishing
\* step; the finishing step of a run executes when every reveal step of the
\* run has; and a run that no stop(), reveal() or play() follows ends with
\* no deferred step pending and the controller in the state reveal()
\* produces.
RunsToTheEnd ==
  /\ [][(observed'.plays # observed.plays)
          => LET mine == SelectSeq(timers', LAMBDA x : x.tracked)
                 n == Len(controller.shapes)
             IN  /\ Len(mine) = n + 1
                 /\ \A i \in 1..n : mine[i].kind = "reveal" /\ mine[i].shape = i
                 /\ mine[n + 1].kind = "final"
                 /\ \A i \in 1..(n + 1) : mine[i].due >= 0]_vars
  /\ [][(completed' # completed)
          => \A i \in DOMAIN timers : timers[i].kind # "reveal"]_vars
  /\ \A n \in 1..MaxPlays :
       (mounted /\ observed.called = "play" /\ observed.plays = n)
         ~> (\/ timers = <<>> /\ revealedState /\ completed > 0
             \/ observed.called # "play"
             \/ observed.plays # n)

\* C27 witness: the one play() of a controller has run to its end and no
\* timer is left
RanToTheEnd ==
  /\ mounted
  /\ observed.called = "play"
  /\ observed.plays = 1
  /\ completed = 1
  /\ timers = <<>>
  /\ revealedState

\* C28: a render that fails on an unknown archetype leaves the container as
\* it was, a render that succeeds leaves in it the one document of that
\* call, and renderToString of an archetype that is not a tag of the
\* composer table returns the empty string without throwing.
FailureLeavesNoTrace ==
  /\ [][(last'.api = "render")
          => IF last'.result.returns = "svg"
               THEN container' = last'.result.document /\ Len(container') = 1
               ELSE container' = container]_vars
  /\ []((last.api = "renderToString"
         /\ last.options.archetype \notin DOMAIN COMPOSERS)
        => (last.result.returns = "string" /\ last.result.document = NoDocument))

\* C29: while the pointer hovers the hero, the archetype index and the base
\* seed change only by the callback of a click, never by the rotation timer
\* or a callback it set earlier; and at most one rotation interval runs.
HoverHoldsRotation ==
  /\ [][(/\ hero.isHovering
          /\ hero'.isHovering
          /\ <<hero'.currentArchetypeIdx, hero'.baseSeed>>
               # <<hero.currentArchetypeIdx, hero.baseSeed>>)
         => hero'.step = "click timeout"]_vars
  /\ [](Cardinality(hero.intervals) <= 1)

\* C30: at most one animation-frame callback is pending; a mouseleave
\* leaves the resting render (the base seed, density 0.5); and a frame
\* callback that runs when the pointer has left does not render the seed
\* and density of the pointer.
RestingAfterLeave ==
  /\ [](Len(hero.frames) <= 1)
  /\ [](hero.step = "mouseleave"
         => hero.shown = [currentArchetypeIdx |-> hero.currentArchetypeIdx,
                          seed |-> hero.baseSeed, density |-> 50])
  /\ [][(~hero.isHovering /\ hero'.step = "frame")
         => (hero'.shown.seed = hero'.baseSeed /\ hero'.shown.density = 50)]_vars

====
